---- MODULE Spec2Model ----
(***************************************************************************)
(* A model of the CP/M disk-image tool: the directory-entry codec of       *)
(* cpm_dir.py (CPMDirectoryEntry) and the disk engine of cpm_disk.py       *)
(* (CPMDisk).  The image file is a sequence of bytes, characters are their *)
(* code points, and every handler is one action.                           *)
(***************************************************************************)
EXTENDS Integers, Sequences, FiniteSets, TLC

VARIABLES
    disk,        \* the constructor arguments of CPMDisk (immutable geometry)
    formatted,   \* TRUE once initialize_disk has created the image file
    img,         \* the image file self.drivename: its length and its bytes
                 \* up to the last one that is not zero
    directory,   \* self.directory, the cached result of the last scan
    op,          \* the last handler called and its arguments
    result,      \* how it ended: "ok" or the name of the exception raised
    ret,         \* the value it returned
    blocks,      \* the blocks find_free_blocks handed to the last write_file
    slots,       \* the slots the last write_file wrote, with what they held
    records,     \* the encoded records the last write_file wrote
    planned,     \* the entries create_entries_for_file planned for it
    pre,         \* the image as it was when the last handler was called
    nops,        \* number of handlers called so far
    cpc,         \* codec check: "none", "entry", "encoded", "decoded"
    cuse16,      \* codec check: pointer width
    centry,      \* codec check: the entry under test
    cbytes,      \* codec check: to_bytes(centry)
    cdecoded     \* codec check: from_bytes(cbytes)

vars == <<disk, formatted, img, directory, op, result, ret, blocks, slots,
          records, planned, pre, nops, cpc, cuse16, centry, cbytes, cdecoded>>

diskvars == <<disk, formatted, img, directory, op, result, ret, blocks,
              slots, records, planned, pre, nops>>
codecvars == <<cpc, cuse16, centry, cbytes, cdecoded>>

----------------------------------------------------------------------------
(* Bounds of the model *)

\* number of handler calls explored on one image
MaxOps == 3

----------------------------------------------------------------------------
(* Program constants *)

EMPTY_DIR == 229
EMPTY_BYTE == 0
EMPTY_ALLOCATION == [i \in 1..16 |-> 0] \o <<>>
\* the value None that find_free_directory_entry and read_file return
None == -1

----------------------------------------------------------------------------
(* Python helpers on integers, strings (sequences of code points) and bytes *)

Min(a, b) == IF a < b THEN a ELSE b
Max(a, b) == IF a > b THEN a ELSE b

\* a // b, the quotient rounded down
CeilDiv_floor(a, b) == a \div b

\* math.ceil(a / b) for a >= 0, b > 0; Python rounds a negative quotient up too
CeilDiv(a, b) == IF a >= 0 THEN (a + b - 1) \div b ELSE -((-a) \div b)

\* [x] * n of Python, as an explicit tuple
Fill(n, x) == [i \in 1..n |-> x] \o <<>>

\* seq[lo:hi] of Python, 0-based, clipped to the sequence
Slice(s, lo, hi) == SubSeq(s, Min(lo, Len(s)) + 1, Min(hi, Len(s)))

\* s.ljust(n, fill)
ljust(s, n, fill) ==
    IF Len(s) >= n THEN s ELSE s \o Fill(n - Len(s), fill)

\* str.upper() of one character (Unicode 14.0, the tables of Python 3.11).
\* UpperRuns, four numbers a run: first, last, step, to. The characters
\* first, first + step, ..., last have a one-character upper case, that of
\* first is to, and the upper case moves on with the character.
UpperRuns ==
    <<
     181, 181, 1, 924,  224, 246, 1, 192,  248, 254, 1, 216,
     255, 255, 1, 376,  257, 303, 2, 256,  305, 305, 1, 73,
     307, 311, 2, 306,  314, 328, 2, 313,  331, 375, 2, 330,
     378, 382, 2, 377,  383, 383, 1, 83,  384, 384, 1, 579,
     387, 389, 2, 386,  392, 392, 1, 391,  396, 396, 1, 395,
     402, 402, 1, 401,  405, 405, 1, 502,  409, 409, 1, 408,
     410, 410, 1, 573,  414, 414, 1, 544,  417, 421, 2, 416,
     424, 424, 1, 423,  429, 429, 1, 428,  432, 432, 1, 431,
     436, 438, 2, 435,  441, 441, 1, 440,  445, 445, 1, 444,
     447, 447, 1, 503,  453, 453, 1, 452,  454, 454, 1, 452,
     456, 456, 1, 455,  457, 457, 1, 455,  459, 459, 1, 458,
     460, 460, 1, 458,  462, 476, 2, 461,  477, 477, 1, 398,
     479, 495, 2, 478,  498, 498, 1, 497,  499, 499, 1, 497,
     501, 501, 1, 500,  505, 543, 2, 504,  547, 563, 2, 546,
     572, 572, 1, 571,  575, 576, 1, 11390,  578, 578, 1, 577,
     583, 591, 2, 582,  592, 592, 1, 11375,  593, 593, 1, 11373,
     594, 594, 1, 11376,  595, 595, 1, 385,  596, 596, 1, 390,
     598, 599, 1, 393,  601, 601, 1, 399,  603, 603, 1, 400,
     604, 604, 1, 42923,  608, 608, 1, 403,  609, 609, 1, 42924,
     611, 611, 1, 404,  613, 613, 1, 42893,  614, 614, 1, 42922,
     616, 616, 1, 407,  617, 617, 1, 406,  618, 618, 1, 42926,
     619, 619, 1, 11362,  620, 620, 1, 42925,  623, 623, 1, 412,
     625, 625, 1, 11374,  626, 626, 1, 413,  629, 629, 1, 415,
     637, 637, 1, 11364,  640, 640, 1, 422,  642, 642, 1, 42949,
     643, 643, 1, 425,  647, 647, 1, 42929,  648, 648, 1, 430,
     649, 649, 1, 580,  650, 651, 1, 433,  652, 652, 1, 581,
     658, 658, 1, 439,  669, 669, 1, 42930,  670, 670, 1, 42928,
     837, 837, 1, 921,  881, 883, 2, 880,  887, 887, 1, 886,
     891, 893, 1, 1021,  940, 940, 1, 902,  941, 943, 1, 904,
     945, 961, 1, 913,  962, 962, 1, 931,  963, 971, 1, 931,
     972, 972, 1, 908,  973, 974, 1, 910,  976, 976, 1, 914,
     977, 977, 1, 920,  981, 981, 1, 934,  982, 982, 1, 928,
     983, 983, 1, 975,  985, 1007, 2, 984,  1008, 1008, 1, 922,
     1009, 1009, 1, 929,  1010, 1010, 1, 1017,  1011, 1011, 1, 895,
     1013, 1013, 1, 917,  1016, 1016, 1, 1015,  1019, 1019, 1, 1018,
     1072, 1103, 1, 1040,  1104, 1119, 1, 1024,  1121, 1153, 2, 1120,
     1163, 1215, 2, 1162,  1218, 1230, 2, 1217,  1231, 1231, 1, 1216,
     1233, 1327, 2, 1232,  1377, 1414, 1, 1329,  4304, 4346, 1, 7312,
     4349, 4351, 1, 7357,  5112, 5117, 1, 5104,  7296, 7296, 1, 1042,
     7297, 7297, 1, 1044,  7298, 7298, 1, 1054,  7299, 7300, 1, 1057,
     7301, 7301, 1, 1058,  7302, 7302, 1, 1066,  7303, 7303, 1, 1122,
     7304, 7304, 1, 42570,  7545, 7545, 1, 42877,  7549, 7549, 1, 11363,
     7566, 7566, 1, 42950,  7681, 7829, 2, 7680,  7835, 7835, 1, 7776,
     7841, 7935, 2, 7840,  7936, 7943, 1, 7944,  7952, 7957, 1, 7960,
     7968, 7975, 1, 7976,  7984, 7991, 1, 7992,  8000, 8005, 1, 8008,
     8017, 8023, 2, 8025,  8032, 8039, 1, 8040,  8048, 8049, 1, 8122,
     8050, 8053, 1, 8136,  8054, 8055, 1, 8154,  8056, 8057, 1, 8184,
     8058, 8059, 1, 8170,  8060, 8061, 1, 8186,  8112, 8113, 1, 8120,
     8126, 8126, 1, 921,  8144, 8145, 1, 8152,  8160, 8161, 1, 8168,
     8165, 8165, 1, 8172,  8526, 8526, 1, 8498,  8560, 8575, 1, 8544,
     8580, 8580, 1, 8579,  9424, 9449, 1, 9398,  11312, 11359, 1, 11264,
     11361, 11361, 1, 11360,  11365, 11365, 1, 570,  11366, 11366, 1, 574,
     11368, 11372, 2, 11367,  11379, 11379, 1, 11378,
     11382, 11382, 1, 11381,  11393, 11491, 2, 11392,
     11500, 11502, 2, 11499,  11507, 11507, 1, 11506,
     11520, 11557, 1, 4256,  11559, 11559, 1, 4295,  11565, 11565, 1, 4301,
     42561, 42605, 2, 42560,  42625, 42651, 2, 42624,
     42787, 42799, 2, 42786,  42803, 42863, 2, 42802,
     42874, 42876, 2, 42873,  42879, 42887, 2, 42878,
     42892, 42892, 1, 42891,  42897, 42899, 2, 42896,
     42900, 42900, 1, 42948,  42903, 42921, 2, 42902,
     42933, 42947, 2, 42932,  42952, 42954, 2, 42951,
     42961, 42961, 1, 42960,  42967, 42969, 2, 42966,
     42998, 42998, 1, 42997,  43859, 43859, 1, 42931,
     43888, 43967, 1, 5024,  65345, 65370, 1, 65313,
     66600, 66639, 1, 66560,  66776, 66811, 1, 66736,
     66967, 67003, 2, 66928,  66968, 66976, 2, 66929,
     66980, 66992, 2, 66941,  66996, 67000, 2, 66957,
     67004, 67004, 1, 66965,  68800, 68850, 1, 68736,
     71872, 71903, 1, 71840,  93792, 93823, 1, 93760,
     125218, 125251, 1, 125184
    >>

\* UpperSpecial, four numbers a character: the character, then the two or
\* three characters of its upper case, 0 standing where there is no third.
UpperSpecial ==
    <<
     223, 83, 83, 0,  329, 700, 78, 0,  496, 74, 780, 0,
     912, 921, 776, 769,  944, 933, 776, 769,  1415, 1333, 1362, 0,
     7830, 72, 817, 0,  7831, 84, 776, 0,  7832, 87, 778, 0,
     7833, 89, 778, 0,  7834, 65, 702, 0,  8016, 933, 787, 0,
     8018, 933, 787, 768,  8020, 933, 787, 769,  8022, 933, 787, 834,
     8064, 7944, 921, 0,  8065, 7945, 921, 0,  8066, 7946, 921, 0,
     8067, 7947, 921, 0,  8068, 7948, 921, 0,  8069, 7949, 921, 0,
     8070, 7950, 921, 0,  8071, 7951, 921, 0,  8072, 7944, 921, 0,
     8073, 7945, 921, 0,  8074, 7946, 921, 0,  8075, 7947, 921, 0,
     8076, 7948, 921, 0,  8077, 7949, 921, 0,  8078, 7950, 921, 0,
     8079, 7951, 921, 0,  8080, 7976, 921, 0,  8081, 7977, 921, 0,
     8082, 7978, 921, 0,  8083, 7979, 921, 0,  8084, 7980, 921, 0,
     8085, 7981, 921, 0,  8086, 7982, 921, 0,  8087, 7983, 921, 0,
     8088, 7976, 921, 0,  8089, 7977, 921, 0,  8090, 7978, 921, 0,
     8091, 7979, 921, 0,  8092, 7980, 921, 0,  8093, 7981, 921, 0,
     8094, 7982, 921, 0,  8095, 7983, 921, 0,  8096, 8040, 921, 0,
     8097, 8041, 921, 0,  8098, 8042, 921, 0,  8099, 8043, 921, 0,
     8100, 8044, 921, 0,  8101, 8045, 921, 0,  8102, 8046, 921, 0,
     8103, 8047, 921, 0,  8104, 8040, 921, 0,  8105, 8041, 921, 0,
     8106, 8042, 921, 0,  8107, 8043, 921, 0,  8108, 8044, 921, 0,
     8109, 8045, 921, 0,  8110, 8046, 921, 0,  8111, 8047, 921, 0,
     8114, 8122, 921, 0,  8115, 913, 921, 0,  8116, 902, 921, 0,
     8118, 913, 834, 0,  8119, 913, 834, 921,  8124, 913, 921, 0,
     8130, 8138, 921, 0,  8131, 919, 921, 0,  8132, 905, 921, 0,
     8134, 919, 834, 0,  8135, 919, 834, 921,  8140, 919, 921, 0,
     8146, 921, 776, 768,  8147, 921, 776, 769,  8150, 921, 834, 0,
     8151, 921, 776, 834,  8162, 933, 776, 768,  8163, 933, 776, 769,
     8164, 929, 787, 0,  8166, 933, 834, 0,  8167, 933, 776, 834,
     8178, 8186, 921, 0,  8179, 937, 921, 0,  8180, 911, 921, 0,
     8182, 937, 834, 0,  8183, 937, 834, 921,  8188, 937, 921, 0,
     64256, 70, 70, 0,  64257, 70, 73, 0,  64258, 70, 76, 0,
     64259, 70, 70, 73,  64260, 70, 70, 76,  64261, 83, 84, 0,
     64262, 83, 84, 0,  64275, 1348, 1350, 0,  64276, 1348, 1333, 0,
     64277, 1348, 1339, 0,  64278, 1358, 1350, 0,  64279, 1348, 1341, 0
    >>

upper_char(c) ==
    IF c < 128 THEN (IF c \in 97..122 THEN <<c - 32>> ELSE <<c>>)
    ELSE LET special == {k \in 0..(Len(UpperSpecial) \div 4 - 1) :
                            UpperSpecial[4 * k + 1] = c}
             run == {k \in 0..(Len(UpperRuns) \div 4 - 1) :
                        /\ c \in UpperRuns[4 * k + 1]..UpperRuns[4 * k + 2]
                        /\ (c - UpperRuns[4 * k + 1])
                               % UpperRuns[4 * k + 3] = 0}
         IN IF special # {}
            THEN SelectSeq(SubSeq(UpperSpecial,
                                  4 * (CHOOSE k \in special : TRUE) + 2,
                                  4 * (CHOOSE k \in special : TRUE) + 4),
                           LAMBDA u : u # 0)
            ELSE IF run # {}
            THEN <<UpperRuns[4 * (CHOOSE k \in run : TRUE) + 4]
                       + (c - UpperRuns[4 * (CHOOSE k \in run : TRUE) + 1])>>
            ELSE <<c>>

\* str.upper()
RECURSIVE upper(_)
upper(s) == IF s = <<>> THEN <<>> ELSE upper_char(s[1]) \o upper(Tail(s))

\* what str.strip()/rstrip() removes, the characters str.isspace() holds
\* for: \t \n \v \f \r, FS GS RS US, space, NEL, the no-break space, the
\* ogham space mark, U+2000..U+200A, the line and paragraph separators, the
\* narrow no-break space, the medium mathematical space, the ideographic
\* space
Whitespace ==
    {9, 10, 11, 12, 13, 28, 29, 30, 31, 32, 133, 160, 5760}
    \cup (8192..8202) \cup {8232, 8233, 8239, 8287, 12288}

\* s.strip(chars)
strip_chars(s, chars) ==
    LET keep == {i \in 1..Len(s) : s[i] \notin chars} IN
    IF keep = {} THEN <<>>
    ELSE SubSeq(s, CHOOSE i \in keep : \A j \in keep : i <= j,
                CHOOSE i \in keep : \A j \in keep : j <= i)

\* os.path.basename: what follows the last "/"
basename(path) ==
    LET seps == {i \in 1..Len(path) : path[i] = 47} IN
    IF seps = {} THEN path
    ELSE SubSeq(path, (CHOOSE i \in seps : \A j \in seps : j <= i) + 1,
                Len(path))

\* os.path.splitext of a name without "/": the extension starts at the last
\* "." unless only "." come before it
splitext(name) ==
    LET dots == {i \in 1..Len(name) : name[i] = 46}
        dotIndex == CHOOSE i \in dots : \A j \in dots : j <= i
    IN IF dots = {} \/ \A i \in 1..(dotIndex - 1) : name[i] = 46
       THEN <<name, <<>>>>
       ELSE <<SubSeq(name, 1, dotIndex - 1), SubSeq(name, dotIndex, Len(name))>>

\* s up to its last character that is not whitespace
rstrip(s) ==
    LET keep == {i \in 1..Len(s) : s[i] \notin Whitespace} IN
    IF keep = {} THEN <<>>
    ELSE SubSeq(s, 1, CHOOSE i \in keep : \A j \in keep : j <= i)

\* s from its first character that is not whitespace
lstrip(s) ==
    LET keep == {i \in 1..Len(s) : s[i] \notin Whitespace} IN
    IF keep = {} THEN <<>>
    ELSE SubSeq(s, CHOOSE i \in keep : \A j \in keep : i <= j, Len(s))

strip(s) == lstrip(rstrip(s))

\* re.sub of a character class by '': drop the characters of the class
re_sub(class, s) == SelectSeq(s, LAMBDA c : c \notin class)

\* str.encode('ascii') and bytes.decode('ascii') succeed on 7-bit values only
IsAscii(s) == \A i \in 1..Len(s) : s[i] \in 0..127

\* bytearray(list) accepts only values 0..255
IsByteList(s) == \A i \in 1..Len(s) : s[i] \in 0..255

----------------------------------------------------------------------------
(* cpm_dir.py: CPMDirectoryEntry *)

\* the characters < > . , ; : = ? * [ ]
ForbiddenChars == {60, 62, 46, 44, 59, 58, 61, 63, 42, 91, 93}

sanitize(filename, filetype) ==
    [filename |-> re_sub(ForbiddenChars, filename),
     filetype |-> re_sub({46}, filetype)]

\* CPMDirectoryEntry.__init__
CPMDirectoryEntry(use_16bit, user_number, filename, filetype, extent_low, extent_high, record_count, block_allocation) ==
    LET s == sanitize(filename, filetype) IN
    [status           |-> user_number,
     filename         |-> ljust(upper(s.filename), 8, 32),
     filetype         |-> ljust(upper(s.filetype), 3, 32),
     extent_low       |-> extent_low,
     reserved         |-> 0,
     extent_high      |-> extent_high,
     record_count     |-> record_count,
     block_allocation |-> IF block_allocation # <<>> THEN block_allocation
                          ELSE EMPTY_ALLOCATION,
     extent           |-> (32 * extent_high) + extent_low,
     use_16bit        |-> use_16bit]

\* block.to_bytes(2, 'little') for every block of the list
encode16(block_list) ==
    [i \in 1..(2 * Len(block_list)) |->
        IF i % 2 = 1 THEN block_list[(i + 1) \div 2] % 256
        ELSE block_list[i \div 2] \div 256]
    \o <<>>

\* int.from_bytes(data[i:i+2], 'little') for i = 0, 2, 4, ...
decode16(data) ==
    [k \in 1..((Len(data) + 1) \div 2) |->
        data[2 * k - 1] + (IF 2 * k <= Len(data) THEN 256 * data[2 * k] ELSE 0)]
    \o <<>>

\* the exception to_bytes raises, "ok" when it raises none
to_bytes_error(e, use_16bit) ==
    IF e.status \notin 0..255 THEN "ValueError"
    ELSE IF ~IsAscii(e.filename) \/ ~IsAscii(e.filetype)
        THEN "UnicodeEncodeError"
    ELSE IF ~IsByteList(<<e.extent_low, e.extent_high>>) THEN "ValueError"
    ELSE IF e.record_count \notin 0..255 THEN "ValueError"
    ELSE IF use_16bit
            /\ \E i \in 1..Len(e.block_allocation) :
                  e.block_allocation[i] \notin 0..65535
        THEN "OverflowError"
    ELSE IF ~use_16bit /\ ~IsByteList(e.block_allocation) THEN "ValueError"
    ELSE "ok"

\* status, filename, filetype, extent_low, extent_high, reserved,
\* record_count, then the pointers in the width asked for
to_bytes(e, use_16bit) ==
    <<e.status>> \o e.filename \o e.filetype
    \o <<e.extent_low, e.extent_high>> \o <<e.reserved>> \o <<e.record_count>>
    \o (IF use_16bit THEN encode16(e.block_allocation)
        ELSE e.block_allocation)

empty_entry == <<229>> \o Fill(31, 0)

\* the exception from_bytes raises, "ok" when it raises none: data[0] of an
\* empty record; then the decoding of data[1:9] and data[9:12], whatever
\* the record holds of them; then data[12] .. data[15]
from_bytes_error(data) ==
    IF Len(data) = 0 THEN "IndexError"
    ELSE IF ~IsAscii(Slice(data, 1, 12)) THEN "UnicodeDecodeError"
    ELSE IF Len(data) < 16 THEN "IndexError"
    ELSE "ok"

\* byte 12 is extent_low, byte 13 reserved, byte 14 extent_high, byte 15
\* record_count (0-based offsets)
from_bytes(use_16bit, data) ==
    CPMDirectoryEntry(use_16bit,
                      data[1],
                      rstrip(Slice(data, 1, 9)),
                      rstrip(Slice(data, 9, 12)),
                      data[13],
                      data[15],
                      data[16],
                      IF use_16bit THEN decode16(Slice(data, 16, 32))
                      ELSE Slice(data, 16, 32))

----------------------------------------------------------------------------
(* cpm_disk.py: CPMDisk.__init__, the derived geometry *)

size == disk.tracks * disk.sectors_per_track * disk.sector_size
block_size == disk.block_size
sector_size == disk.sector_size
drm == disk.drm

\* reserved blocks - blocks begin after these tracks
off_blocks == (disk.off * disk.sectors_per_track * disk.sector_size)
                  \div block_size

directory_start == disk.off * disk.sectors_per_track * disk.sector_size

directory_size == drm * 32
directory_blocks == CeilDiv(directory_size, block_size)

\* int(phisical_blocks)
total_blocks == size \div block_size

data_area_start == directory_blocks * block_size

\* Python's // rounds toward minus infinity, as \div does
total_usable_blocks == ((size - data_area_start) \div block_size) + 1

first_usable_block == total_blocks - total_usable_blocks + 1

\* two-byte pointers from 257 usable blocks on
use_16bit_above_256 == total_usable_blocks > 256

use_16bit == total_usable_blocks > 255

----------------------------------------------------------------------------
(* cpm_disk.py: positioned I/O on the image file *)

\* A file is held as [len, head]: len bytes, head the bytes up to the last
\* one that is not zero, zero bytes from there to the end of the file.
NoFile == [len |-> 0, head |-> <<>>]

\* the last index of lo..hi where s is not zero, 0 when there is none
RECURSIVE LastNonZero(_, _, _)
LastNonZero(s, lo, hi) ==
    IF hi < lo THEN 0
    ELSE IF lo = hi THEN (IF s[lo] # 0 THEN lo ELSE 0)
    ELSE LET upper_half == LastNonZero(s, (lo + hi + 1) \div 2, hi) IN
         IF upper_half # 0 THEN upper_half
         ELSE LastNonZero(s, lo, ((lo + hi + 1) \div 2) - 1)

\* a file of n bytes EMPTY_BYTE
ZeroFile(n) == [len |-> n, head |-> <<>>]

\* byte p (from 0) of a file
ByteAt(image, p) == IF p < Len(image.head) THEN image.head[p + 1] ELSE 0

\* f.seek(position); f.read(size): short at the end of the file
\* how read_position ends: open() of an image file that is not there raises
\* inside the try, the handler prints and calls exit(1)
read_position_error(present) == IF present THEN "ok" ELSE "SystemExit"

read_position(image, position, n) ==
    LET end == Min(position + n, image.len)
        stored == Slice(image.head, position, end)
    IN IF end <= position THEN <<>>
       ELSE stored \o Fill((end - position) - Len(stored), 0)

\* f.seek(position); f.write(data): a write past the end extends the file,
\* the gap reads as zero bytes
write_position(image, position, data) ==
    IF data = <<>> THEN image
    ELSE LET base == IF Len(image.head) < position
                     THEN image.head \o Fill(position - Len(image.head), 0)
                     ELSE image.head
             bytes == SubSeq(base, 1, position) \o data
                      \o SubSeq(base, position + Len(data) + 1, Len(base))
         IN [len |-> Max(image.len, position + Len(data)),
             head |-> SubSeq(bytes, 1, LastNonZero(bytes, 1, Len(bytes)))]

read_block(image, block_number) ==
    read_position(image, (block_number + off_blocks) * block_size, block_size)

\* the caller checks len(data) > block_size (ValueError) with write_block_ok
write_block_ok(data) == Len(data) <= block_size

write_block(image, block_number, data) ==
    write_position(image, (block_number * block_size) + directory_start,
                   ljust(data, block_size, EMPTY_BYTE))

read_directory_entry(image, entry_number) ==
    read_position(image, directory_start + entry_number * 32, 32)

write_directory_entry(image, entry_number, entry_data) ==
    write_position(image, directory_start + entry_number * 32, entry_data)

----------------------------------------------------------------------------
(* cpm_disk.py: directory scan *)

\* the first slot of range(self.drm) that lies at or past the end of the
\* file, where read_position returns b'' and entry_data[0] raises
\* IndexError; drm when every slot is there
first_missing_slot(image) ==
    IF image.len <= directory_start THEN 0
    ELSE Min(drm, (image.len - directory_start + 31) \div 32)

\* the entries appended by the loop for the slots of range(lo, hi): those of
\* the lower half of the range, then those of the upper half
RECURSIVE read_directory_from(_, _, _)
read_directory_from(image, lo, hi) ==
    IF hi <= lo THEN <<>>
    ELSE IF hi = lo + 1
    THEN LET entry_data == read_directory_entry(image, lo) IN
         IF entry_data[1] # EMPTY_DIR /\ from_bytes_error(entry_data) = "ok"
         THEN <<from_bytes(use_16bit, entry_data)>>
         ELSE <<>>
    ELSE read_directory_from(image, lo, (lo + hi) \div 2)
         \o read_directory_from(image, (lo + hi) \div 2, hi)

\* The exception the scan of the slots before the slot stop raises. The
\* except clause starts with print(entry): entry is unbound until a slot has
\* decoded, so an undecodable slot met before any decoded one ends the scan
\* with UnboundLocalError; after one it is only reported. A slot that reads
\* as no bytes ends it with IndexError at entry_data[0], outside the try.
read_directory_scan_error(image, stop) ==
    LET live == {n \in 0..(stop - 1) :
                    read_directory_entry(image, n)[1] # EMPTY_DIR}
    IN IF live # {}
          /\ from_bytes_error(read_directory_entry(
                 image, CHOOSE n \in live : \A m \in live : n <= m)) # "ok"
       THEN "UnboundLocalError"
       ELSE IF stop < drm THEN "IndexError"
       ELSE "ok"

read_directory_error(image) ==
    read_directory_scan_error(image, first_missing_slot(image))

\* self.directory after the scan: nothing was appended when it raised
\* UnboundLocalError, the entries of the slots before the missing one when
\* it raised IndexError
read_directory(image) ==
    IF read_directory_error(image) = "UnboundLocalError" THEN <<>>
    ELSE read_directory_from(image, 0, first_missing_slot(image))

\* the exception find_free_directory_entry raises, "ok" when it raises
\* none: IndexError at entry_data[0] when a slot that reads as no bytes
\* comes before any slot whose status byte is EMPTY_DIR
find_free_directory_entry_error(image) ==
    IF \E n \in 0..(drm - 1) :
          /\ read_directory_entry(image, n) = <<>>
          /\ \A m \in 0..(n - 1) :
                read_directory_entry(image, m)[1] # EMPTY_DIR
    THEN "IndexError"
    ELSE "ok"

\* the first slot of range(self.drm) whose status byte is EMPTY_DIR
find_free_directory_entry(image) ==
    LET free == {n \in 0..(drm - 1) :
                    /\ read_directory_entry(image, n) # <<>>
                    /\ read_directory_entry(image, n)[1] = EMPTY_DIR}
    IN IF free = {} THEN None
       ELSE CHOOSE n \in free : \A m \in free : n <= m

----------------------------------------------------------------------------
(* cpm_disk.py: free space, derived from self.directory *)

\* the list is only iterated to mark blocks, so a set carries all of it
get_used_blocks_from_directory(dir) ==
    UNION {{dir[k].block_allocation[i] :
               i \in 1..Len(dir[k].block_allocation)} : k \in 1..Len(dir)}
    \ {0}

\* the bitmap without the loop that marks the directory blocks
get_blocks_status_directory_free(dir) ==
    LET used_blocks == get_used_blocks_from_directory(dir) IN
    [block \in 0..total_usable_blocks |->
        ~(block \in used_blocks /\ 0 < block
          /\ block <= total_usable_blocks)] @@ <<>>

\* the bitmap with one index more than range(total_usable_blocks + 1) has
get_blocks_status_one_more(dir) ==
    LET used_blocks == get_used_blocks_from_directory(dir) IN
    [block \in 0..(total_usable_blocks + 1) |->
        ~(block < directory_blocks)
        /\ ~(block \in used_blocks /\ 0 < block
             /\ block <= total_usable_blocks)] @@ <<>>

\* the exception the walk over self.directory raises, "ok" when it raises
\* none: after initialize_disk the list holds the bytearrays of empty_entry,
\* which have no block_allocation
get_used_blocks_error(dir) ==
    IF \E k \in 1..Len(dir) : "raw" \in DOMAIN dir[k] THEN "AttributeError"
    ELSE "ok"

\* the exception get_blocks_status_from_directory raises, "ok" when it raises
\* none: that of the walk over self.directory, then IndexError when
\* block_status[block] = False for block in range(0, directory_blocks) runs
\* past the total_usable_blocks + 1 entries of the bitmap
get_blocks_status_error(dir) ==
    IF get_used_blocks_error(dir) # "ok" THEN get_used_blocks_error(dir)
    ELSE IF directory_blocks > Max(total_usable_blocks + 1, 0)
    THEN "IndexError"
    ELSE "ok"

\* block_status[block], True free / False occupied, for 0..total_usable_blocks
\* (an explicit function, worked out once): what the method returns when
\* get_blocks_status_error is "ok", and it returns nothing when it is not
get_blocks_status_from_directory(dir) ==
    LET used_blocks == get_used_blocks_from_directory(dir) IN
    [block \in 0..total_usable_blocks |->
        ~(block < directory_blocks)
        /\ ~(block \in used_blocks /\ 0 < block
             /\ block <= total_usable_blocks)] @@ <<>>

\* The loop of find_free_blocks over the indices of range(lo, hi) of the
\* bitmap, from the state st it is entered with: a free block is appended
\* and counted down, and the loop breaks as soon as number_of_blocks is 0.
\* The lower half of the range is run (its result taken) before the upper.
RECURSIVE find_free_loop(_, _, _, _)
find_free_loop(block_status, lo, hi, st) ==
    IF st.stop \/ hi <= lo THEN st
    ELSE IF hi = lo + 1
    THEN LET left == IF block_status[lo] THEN st.number_of_blocks - 1
                     ELSE st.number_of_blocks
         IN [free_blocks |-> IF block_status[lo]
                             THEN Append(st.free_blocks, lo)
                             ELSE st.free_blocks,
             number_of_blocks |-> left,
             stop |-> left = 0]
    ELSE LET half == find_free_loop(block_status, lo, (lo + hi) \div 2, st)
         IN IF half.stop THEN half
            ELSE find_free_loop(block_status, (lo + hi) \div 2, hi, half)

\* find_free_blocks without the raise: it hands back the blocks it found
find_free_blocks_short(dir, number_of_blocks) ==
    LET r == find_free_loop(get_blocks_status_from_directory(dir), 0,
                            total_usable_blocks + 1,
                            [free_blocks |-> <<>>,
                             number_of_blocks |-> number_of_blocks,
                             stop |-> FALSE]) IN
    [error |-> FALSE, free_blocks |-> r.free_blocks]

\* the exception find_free_blocks raises, "ok" when it raises none: that of
\* the bitmap, then Exception("Not enough free space on the disk")
find_free_blocks_error(dir, found) ==
    IF get_blocks_status_error(dir) # "ok" THEN get_blocks_status_error(dir)
    ELSE IF found.error THEN "Exception"
    ELSE "ok"

\* raises Exception("Not enough free space on the disk") when error is set
find_free_blocks(dir, number_of_blocks) ==
    LET number == get_blocks_status_from_directory(dir)
        r == find_free_loop(number, 0, Cardinality(DOMAIN number),
                            [free_blocks |-> <<>>,
                             number_of_blocks |-> number_of_blocks,
                             stop |-> FALSE]) IN
    [error |-> r.number_of_blocks > 0, free_blocks |-> r.free_blocks]

----------------------------------------------------------------------------
(* cpm_dir.py: create_entries_for_file *)

\* the two widths the other way round
blocks_per_entry_swapped == IF use_16bit THEN 16 ELSE 8

blocks_per_entry == IF use_16bit THEN 8 ELSE 16

\* one sector short of what an entry covers
records_per_extent_short == block_size * blocks_per_entry - sector_size

\* named so in the source; it is the number of bytes one entry covers
records_per_extent == block_size * blocks_per_entry

\* the entries appended by the loop for i, i+1, ..., num_extents-1
RECURSIVE create_entries_loop(_, _, _, _, _, _)
create_entries_loop(filename, filetype, data_length, free, i, num_extents) ==
    IF i >= num_extents THEN <<>>
    ELSE LET record_count ==
                 CeilDiv(Min(data_length, records_per_extent), sector_size)
             block_allocation ==
                 Slice(free, i * blocks_per_entry,
                       i * blocks_per_entry + blocks_per_entry)
         IN <<CPMDirectoryEntry(use_16bit, 0, filename, filetype, i, 0,
                                record_count, block_allocation)>>
            \o create_entries_loop(filename, filetype,
                                   data_length - record_count * sector_size,
                                   free, i + 1, num_extents)

\* dir is what disk.read_directory() has just put in self.directory
create_entries_for_file(filename, filetype, data_length, dir) ==
    LET num_blocks == CeilDiv(data_length, block_size)
        num_extents == CeilDiv(num_blocks, blocks_per_entry)
        found == find_free_blocks(dir, num_blocks)
    IN IF get_blocks_status_error(dir) # "ok"
       THEN [error |-> TRUE, raised |-> get_blocks_status_error(dir),
             blocks |-> <<>>, entries |-> <<>>]
       ELSE IF found.error
       THEN [error |-> TRUE, raised |-> "Exception",
             blocks |-> <<>>, entries |-> <<>>]
       ELSE [error |-> FALSE, raised |-> "ok",
             blocks |-> found.free_blocks,
             entries |-> create_entries_loop(filename, filetype, data_length,
                                             found.free_blocks, 0,
                                             num_extents)]

----------------------------------------------------------------------------
(* cpm_disk.py: write_file, read_file, delete_file, initialize_disk *)

RECURSIVE concat_allocations(_)
concat_allocations(entries) ==
    IF entries = <<>> THEN <<>>
    ELSE entries[1].block_allocation \o concat_allocations(Tail(entries))

\* for i, block in enumerate(blocks): write_block(block, data[start:end]),
\* for the i of range(lo, hi): the lower half of the range is written (its
\* length taken) before the upper half
RECURSIVE write_data_blocks(_, _, _, _, _)
write_data_blocks(image, blks, data, lo, hi) ==
    IF hi <= lo THEN image
    ELSE IF hi = lo + 1
    THEN write_block(image, blks[lo + 1],
                     Slice(data, lo * block_size,
                           lo * block_size + block_size))
    ELSE LET half == write_data_blocks(image, blks, data, lo,
                                       (lo + hi) \div 2)
         IN IF half.len < 0 THEN half
            ELSE write_data_blocks(half, blks, data, (lo + hi) \div 2, hi)

\* for entry in entries: find a free slot, encode the entry, write it there.
\* The search for the slot comes first and may raise; the encoding is
\* evaluated before write_directory_entry computes the position, where a
\* slot of None raises TypeError.
RECURSIVE write_entries(_, _, _, _)
write_entries(image, entries, wslots, wrecords) ==
    IF image.len >= 0 /\ entries = <<>>
    THEN [image |-> image, result |-> "ok", slots |-> wslots,
          records |-> wrecords]
    ELSE LET num_entry == find_free_directory_entry(image)
             err == to_bytes_error(entries[1], use_16bit)
             rec == to_bytes(entries[1], use_16bit)
         IN IF find_free_directory_entry_error(image) # "ok"
            THEN [image |-> image,
                  result |-> find_free_directory_entry_error(image),
                  slots |-> wslots, records |-> wrecords]
            ELSE IF err # "ok"
            THEN [image |-> image, result |-> err, slots |-> wslots,
                  records |-> wrecords]
            ELSE IF num_entry = None
            THEN [image |-> image, result |-> "TypeError", slots |-> wslots,
                  records |-> wrecords]
            ELSE write_entries(
                     write_directory_entry(image, num_entry, rec),
                     Tail(entries),
                     Append(wslots,
                            [slot |-> num_entry,
                             held |-> read_directory_entry(image, num_entry)]),
                     Append(wrecords, rec))

write_file(image, filename, filetype, data) ==
    LET dir == read_directory(image)
        plan == create_entries_for_file(filename, filetype, Len(data), dir)
        blks == concat_allocations(plan.entries)
        written == write_data_blocks(image, blks, data, 0, Len(blks))
        w == write_entries(written, plan.entries, <<>>, <<>>)
    IN IF read_directory_error(image) # "ok"
       THEN [image |-> image, directory |-> dir,
             result |-> read_directory_error(image),
             blocks |-> <<>>, slots |-> <<>>, records |-> <<>>,
             entries |-> <<>>]
       ELSE IF plan.error
       THEN [image |-> image, directory |-> dir, result |-> plan.raised,
             blocks |-> <<>>, slots |-> <<>>, records |-> <<>>,
             entries |-> <<>>]
       ELSE [image |-> w.image, directory |-> dir, result |-> w.result,
             blocks |-> plan.blocks, slots |-> w.slots,
             records |-> w.records, entries |-> plan.entries]

\* put_file: file_name.strip() and file_type.strip(".") of
\* os.path.splitext(os.path.basename(filename))
put_file_name(path) == strip(splitext(basename(path))[1])
put_file_type(path) == strip_chars(splitext(basename(path))[2], {46})

\* put_file: every exception of write_file ends in exit(1)
put_file_error(outcome) == IF outcome = "ok" THEN "ok" ELSE "SystemExit"

\* putsys raises ValueError("File too large for system file") above this
putsys_ok(data) == Len(data) <= 2048

\* f.seek(0); f.write(data)
putsys(image, data) == write_position(image, 0, data)

\* write_block(block + i, data[start:end]) for every block_size bytes of data
put_at_block(image, data, first) ==
    LET count == CeilDiv(Len(data), block_size)
        blks == [i \in 1..count |-> first + i - 1] \o <<>>
    IN write_data_blocks(image, blks, data, 0, count)

\* f.seek(offset); f.write(data); return len(data)
put_file_at_offset(image, data, offset) ==
    [image |-> write_position(image, offset, data), ret |-> Len(data)]

\* the slots of range(self.drm), each decoded whatever its status
slot_entry(image, entry_number) ==
    from_bytes(use_16bit, read_directory_entry(image, entry_number))

\* the first slot of range(from, self.drm) from_bytes raises on, drm when
\* there is none
first_undecodable(image, entry_number) ==
    LET bad == {n \in entry_number..(drm - 1) :
                   from_bytes_error(read_directory_entry(image, n)) # "ok"}
    IN IF bad = {} THEN drm
       ELSE CHOOSE n \in bad : \A m \in bad : n <= m

read_file_matches(image, filename, filetype, entry_number) ==
    LET entry == slot_entry(image, entry_number) IN
    /\ strip(entry.filename) = upper(filename)
    /\ strip(entry.filetype) = upper(filetype)

\* for block in entry.block_allocation: stop at the first 0
RECURSIVE read_entry_blocks(_, _, _)
read_entry_blocks(image, allocation, i) ==
    IF i > Len(allocation) THEN <<>>
    ELSE IF allocation[i] = 0 THEN <<>>
    ELSE read_block(image, allocation[i])
         \o read_entry_blocks(image, allocation, i + 1)

RECURSIVE read_file_from(_, _, _, _)
read_file_from(image, filename, filetype, entry_number) ==
    IF entry_number >= drm THEN <<>>
    ELSE (IF read_file_matches(image, filename, filetype, entry_number)
          THEN read_entry_blocks(
                   image, slot_entry(image, entry_number).block_allocation, 1)
          ELSE <<>>)
         \o read_file_from(image, filename, filetype, entry_number + 1)

read_file(image, filename, filetype) ==
    LET bad == first_undecodable(image, 0) IN
    IF bad < drm
    THEN [result |-> from_bytes_error(read_directory_entry(image, bad)),
          ret |-> None]
    ELSE IF \E n \in 0..(drm - 1) :
                read_file_matches(image, filename, filetype, n)
    THEN [result |-> "ok", ret |-> read_file_from(image, filename, filetype, 0)]
    ELSE [result |-> "ok", ret |-> None]

\* the first slot whose filename matches, drm when there is none; the scan
\* stops with the exception of from_bytes at an undecodable slot before it
delete_file_match(image, filename) ==
    LET hits == {n \in 0..(drm - 1) :
                   /\ from_bytes_error(read_directory_entry(image, n)) = "ok"
                   /\ strip(slot_entry(image, n).filename) = upper(filename)}
    IN IF hits = {} THEN drm
       ELSE CHOOSE n \in hits : \A m \in hits : n <= m

\* On a match the handler passes EMPTY_DIR * 32, the integer 7328, to
\* write_directory_entry: f.write raises TypeError on it inside
\* write_position, whose except clause then raises TypeError on len(data).
\* Nothing is written and the loop never reaches the data blocks.
delete_file(image, filename) ==
    LET bad == first_undecodable(image, 0)
        hit == delete_file_match(image, filename)
    IN IF hit < drm /\ hit < bad
       THEN [image |-> image, result |-> "TypeError"]
       ELSE IF bad < drm
       THEN [image |-> image,
             result |-> from_bytes_error(read_directory_entry(image, bad))]
       ELSE [image |-> image, result |-> "FileNotFoundError"]

\* one empty entry written for each entry_number of range(lo, hi): the
\* lower half of the range is written (its length taken)
\* before the upper half
RECURSIVE initialize_entries(_, _, _)
initialize_entries(image, lo, hi) ==
    IF hi <= lo THEN image
    ELSE IF hi = lo + 1 THEN write_directory_entry(image, lo, empty_entry)
    ELSE LET half == initialize_entries(image, lo, (lo + hi) \div 2)
         IN IF half.len < 0 THEN half
            ELSE initialize_entries(half, (lo + hi) \div 2, hi)

\* f.write(EMPTY_BYTE * self.size), then the entries of range(self.drm + 1);
\* self.directory is left holding the drm + 1 bytearrays, not entries
initialize_disk ==
    [image |-> initialize_entries(ZeroFile(size), 0, drm + 1),
     directory |-> [k \in 1..(drm + 1) |-> [raw |-> empty_entry]]]

----------------------------------------------------------------------------
(* The inputs explored *)

\* 8-bit pointers, directory start a multiple of the block size
GeomAligned ==
    [tracks |-> 6, sectors_per_track |-> 2, sector_size |-> 16,
     block_size |-> 32, bsh |-> 1, drm |-> 2, off |-> 1]

\* 8-bit pointers, directory start in the middle of a block (as with the
\* 26 sectors of 128 bytes and 1024-byte blocks of an 8" disk)
GeomSkewed ==
    [tracks |-> 6, sectors_per_track |-> 3, sector_size |-> 16,
     block_size |-> 32, bsh |-> 1, drm |-> 1, off |-> 1]

\* more than 255 usable blocks: 16-bit pointers
GeomWide ==
    [tracks |-> 36, sectors_per_track |-> 16, sector_size |-> 1,
     block_size |-> 2, bsh |-> 1, drm |-> 2, off |-> 1]

Geometries == {GeomAligned, GeomSkewed, GeomWide}

\* no directory entries at all: directory_blocks = 0, block 0 is a data block
GeomNoDir ==
    [tracks |-> 6, sectors_per_track |-> 2, sector_size |-> 16,
     block_size |-> 32, bsh |-> 1, drm |-> 0, off |-> 1]

\* five directory blocks where the bitmap has three entries
GeomDirBig ==
    [tracks |-> 2, sectors_per_track |-> 3, sector_size |-> 32,
     block_size |-> 32, bsh |-> 1, drm |-> 5, off |-> 1]

AllocGeometries == {GeomAligned, GeomNoDir, GeomDirBig}

BitmapGeometries == Geometries \cup {GeomDirBig}

\* the largest number of blocks find_free_blocks is asked for directly
MaxAsk == 5

\* the highest block number written and read directly
MaxBlock == 3

\* the highest block number and the highest track translated
MaxGeoBlock == 6
MaxTrack == 2


\* a disk of four slots for the names that need validation
GeomNames ==
    [tracks |-> 12, sectors_per_track |-> 2, sector_size |-> 16,
     block_size |-> 32, bsh |-> 1, drm |-> 4, off |-> 1]

\* "a", "*" (nothing left once the forbidden characters are dropped),
\* "e" with an acute accent (U+00E9, not ASCII), the dotless i (U+0131,
\* whose upper case is "I")
OddNames == {<<97>>, <<42>>, <<233>>, <<305>>}
\* "T", "." and "*" (forbidden characters only), U+00E9
OddTypes == {<<84>>, <<46>>, <<42>>, <<233>>}

\* "a", "LONGNAMEX"
PlainNames == {<<97>>, <<76, 79, 78, 71, 78, 65, 77, 69, 88>>}
\* "T", "x"
PlainTypes == {<<84>>, <<120>>}

FileNames == IF disk = GeomNames THEN OddNames ELSE PlainNames
FileTypes == IF disk = GeomNames THEN OddTypes ELSE PlainTypes

\* n bytes seed, seed+1, ...
Pattern(n, seed) == [i \in 1..n |-> (seed + i - 1) % 256] \o <<>>

\* one byte, a full block, one byte more than a block
BlockData ==
    {Pattern(1, 65), Pattern(block_size, 1), Pattern(block_size + 1, 129)}

\* one partial block; two full blocks; one byte more than an entry covers;
\* more than the disk has free or, on a large disk, a third entry's worth
\* The example of the README: an 8" disk of 77 tracks of 26 sectors of 128
\* bytes, 1024-byte blocks, 64 directory entries, 2 reserved tracks
GeomExample ==
    [tracks |-> 77, sectors_per_track |-> 26, sector_size |-> 128,
     block_size |-> 1024, bsh |-> 3, drm |-> 64, off |-> 2]

\* total_usable_blocks = 255, the last geometry with one-byte pointers
GeomByte ==
    [tracks |-> 286, sectors_per_track |-> 1, sector_size |-> 2,
     block_size |-> 2, bsh |-> 1, drm |-> 2, off |-> 1]

\* total_usable_blocks = 256, the first geometry with two-byte pointers
GeomWord ==
    [tracks |-> 287, sectors_per_track |-> 1, sector_size |-> 2,
     block_size |-> 2, bsh |-> 1, drm |-> 2, off |-> 1]

SurveyGeometries == {GeomExample, GeomByte, GeomWord}

\* total_usable_blocks = 255, the most with 8-bit pointers, and 16 slots:
\* room in the directory for a file that takes every free block
GeomByteFull ==
    [tracks |-> 270, sectors_per_track |-> 2, sector_size |-> 16,
     block_size |-> 32, bsh |-> 1, drm |-> 16, off |-> 1]

\* total_usable_blocks = 256, the least with 16-bit pointers, and 32 slots
GeomWordFull ==
    [tracks |-> 287, sectors_per_track |-> 2, sector_size |-> 16,
     block_size |-> 32, bsh |-> 1, drm |-> 32, off |-> 1]

WidthGeometries == {GeomByteFull, GeomWordFull}

\* the small disks and the example disk (bsh = 3, 26 sectors per track)
TranslationGeometries == Geometries \cup {GeomExample}

\* on the example disk the 2050-byte file; on the other two what one entry
\* covers, twice that, and one byte more than one entry covers; on all
\* three the empty file
SurveyData ==
    IF disk = GeomExample THEN {<<>>, Pattern(2050, 1)}
    ELSE {<<>>,
          Pattern(block_size * blocks_per_entry, 1),
          Pattern(2 * block_size * blocks_per_entry, 65),
          Pattern(block_size * blocks_per_entry + 1, 129)}

SmallDiskData ==
    {Pattern(1, 65),
     Pattern(2 * block_size, 1),
     Pattern(records_per_extent + 1, 129),
     Pattern(Min((total_usable_blocks + 1) * block_size,
                 2 * records_per_extent + 1), 3)}

\* one byte; every block the fresh disk has free
WidthData ==
    {Pattern(1, 65),
     Pattern((total_usable_blocks + 1 - directory_blocks) * block_size, 1)}

\* on the two full-width disks nothing, one block, every free block and one
\* more; on the others 0..MaxAsk
Asks ==
    IF disk \in WidthGeometries
    THEN {0, 1, total_usable_blocks + 1 - directory_blocks,
          total_usable_blocks + 2 - directory_blocks}
    ELSE 0..MaxAsk

FileData ==
    IF disk \in SurveyGeometries THEN SurveyData
    ELSE IF disk \in WidthGeometries THEN WidthData
    ELSE IF disk = GeomNames THEN {Pattern(block_size + 1, 65)}
    ELSE SmallDiskData

\* paths of host files: "a.T", "d/x.y.t", "a", ".T", " b ..x", and "a"
\* followed by the ideographic space before ".T"
HostPaths ==
    {<<97, 46, 84>>, <<100, 47, 120, 46, 121, 46, 116>>, <<97>>, <<46, 84>>,
     <<32, 98, 32, 46, 46, 120>>, <<97, 12288, 46, 84>>}

\* what a host file holds: nothing, one byte, one byte more than a block
HostData == {<<>>, Pattern(1, 65), Pattern(block_size + 1, 129)}

\* a system file: one byte, the largest accepted, one byte more
SysData == {Pattern(1, 65), Pattern(2048, 3), Pattern(2049, 1)}

\* the start of the image, inside slot 0, the last byte, past the end
Positions == {0, directory_start + 1, size - 1, size + 1}

\* the highest slot number written directly
MaxEntry == 1

NoOp ==
    [name |-> "new", filename |-> <<>>, filetype |-> <<>>, data |-> <<>>,
     n |-> 0, sector |-> 0]

\* A 32-byte directory record as found on an image made by another tool:
\* status, name, type "T", extent number, record count 1 and the pointers
\* in the disk's pointer width.
ImageRecord(status, name, ex, pointers) ==
    <<status>> \o ljust(name, 8, 32) \o <<84, 32, 32>> \o <<ex, 0, 0, 1>>
    \o (IF use_16bit THEN encode16(ljust(pointers, 8, 0))
        ELSE ljust(pointers, 16, 0))

\* the records put in the slots of range(drm), in the order given
RECURSIVE PatchSlots(_, _)
PatchSlots(image, patches) ==
    IF image.len >= 0 /\ patches = <<>> THEN image
    ELSE PatchSlots(
             IF patches[1][1] < drm
             THEN write_position(image, directory_start + 32 * patches[1][1],
                                 patches[1][2])
             ELSE image,
             Tail(patches))

\* an initialized image whose first three data blocks hold distinct bytes
ImageBase ==
    LET D == directory_blocks
        a == write_position(initialize_disk.image,
                            (D + off_blocks) * block_size,
                            Pattern(block_size, 10))
        b == write_position(a, (D + 1 + off_blocks) * block_size,
                            Pattern(block_size, 60))
    IN write_position(b, (D + 2 + off_blocks) * block_size,
                      Pattern(block_size, 110))

\* Images the tool is opened on: a file "A.T" deleted by CP/M (status 0xE5,
\* name and pointers kept); a name with a non-ASCII byte in the first live
\* slot, before a good entry; the same after a good entry; a file whose
\* extent 1 sits in a lower slot than its extent 0, with a hole in the
\* pointer list; a directory formatted by another tool, every byte 0xE5.
DiskImages ==
    LET D == directory_blocks IN
    {PatchSlots(ImageBase, <<<<0, ImageRecord(229, <<65>>, 0, <<D>>)>>>>),
     PatchSlots(ImageBase, <<<<0, ImageRecord(0, <<201>>, 0, <<D>>)>>,
                             <<1, ImageRecord(0, <<65>>, 0, <<D + 1>>)>>>>),
     PatchSlots(ImageBase, <<<<0, ImageRecord(0, <<65>>, 0, <<D>>)>>,
                             <<1, ImageRecord(0, <<201>>, 0, <<D + 1>>)>>>>),
     PatchSlots(ImageBase,
                <<<<0, ImageRecord(0, <<65>>, 1, <<D + 2, 0, D + 1>>)>>,
                  <<1, ImageRecord(0, <<65>>, 0, <<D>>)>>>>),
     PatchSlots(ImageBase, <<<<0, Fill(32, EMPTY_DIR)>>,
                             <<1, Fill(32, EMPTY_DIR)>>>>)}

----------------------------------------------------------------------------
(* The disk: state after CPMDisk(...) and one action per handler *)

Init ==
    /\ disk \in Geometries
    /\ formatted = FALSE
    /\ img = NoFile
    /\ directory = <<>>
    /\ op = NoOp
    /\ result = "ok"
    /\ ret = None
    /\ blocks = <<>>
    /\ slots = <<>>
    /\ records = <<>>
    /\ planned = <<>>
    /\ pre = NoFile
    /\ nops = 0
    /\ cpc = "none"
    /\ cuse16 = FALSE
    /\ centry = CPMDirectoryEntry(FALSE, 0, <<>>, <<>>, 0, 0, 0, <<>>)
    /\ cbytes = <<>>
    /\ cdecoded = CPMDirectoryEntry(FALSE, 0, <<>>, <<>>, 0, 0, 0, <<>>)

InitializeDisk ==
    /\ nops < MaxOps
    /\ formatted' = TRUE
    /\ img' = initialize_disk.image
    /\ directory' = initialize_disk.directory
    /\ op' = [NoOp EXCEPT !.name = "initialize_disk"]
    /\ result' = "ok"
    /\ ret' = None
    /\ blocks' = <<>>
    /\ slots' = <<>>
    /\ records' = <<>>
    /\ planned' = <<>>
    /\ pre' = img
    /\ nops' = nops + 1
    /\ UNCHANGED <<disk, codecvars>>

ReadDirectory ==
    /\ nops < MaxOps
    /\ formatted
    /\ directory' = read_directory(img)
    /\ op' = [NoOp EXCEPT !.name = "read_directory"]
    /\ result' = read_directory_error(img)
    /\ ret' = None
    /\ blocks' = <<>>
    /\ slots' = <<>>
    /\ records' = <<>>
    /\ planned' = <<>>
    /\ pre' = img
    /\ nops' = nops + 1
    /\ UNCHANGED <<disk, formatted, img, codecvars>>

WriteFile ==
    /\ nops < MaxOps
    /\ formatted
    /\ \E filename \in FileNames, filetype \in FileTypes, data \in FileData :
          LET w == write_file(img, filename, filetype, data) IN
          /\ img' = w.image
          /\ directory' = w.directory
          /\ op' = [name |-> "write_file", filename |-> filename,
                    filetype |-> filetype, data |-> data, n |-> 0,
                    sector |-> 0]
          /\ result' = w.result
          /\ ret' = None
          /\ blocks' = w.blocks
          /\ slots' = w.slots
          /\ records' = w.records
          /\ planned' = w.entries
    /\ pre' = img
    /\ nops' = nops + 1
    /\ UNCHANGED <<disk, formatted, codecvars>>

ReadFile ==
    /\ nops < MaxOps
    /\ formatted
    /\ \E filename \in FileNames, filetype \in FileTypes :
          LET r == read_file(img, filename, filetype) IN
          /\ op' = [NoOp EXCEPT !.name = "read_file",
                                !.filename = filename, !.filetype = filetype]
          /\ result' = r.result
          /\ ret' = r.ret
    /\ blocks' = <<>>
    /\ slots' = <<>>
    /\ records' = <<>>
    /\ planned' = <<>>
    /\ pre' = img
    /\ nops' = nops + 1
    /\ UNCHANGED <<disk, formatted, img, directory, codecvars>>

DeleteFile ==
    /\ nops < MaxOps
    /\ formatted
    /\ \E filename \in FileNames :
          LET d == delete_file(img, filename) IN
          /\ img' = d.image
          /\ op' = [NoOp EXCEPT !.name = "delete_file", !.filename = filename]
          /\ result' = d.result
    /\ ret' = None
    /\ blocks' = <<>>
    /\ slots' = <<>>
    /\ records' = <<>>
    /\ planned' = <<>>
    /\ pre' = img
    /\ nops' = nops + 1
    /\ UNCHANGED <<disk, formatted, directory, codecvars>>

\* get_blocks_status_from_directory(), as disk_map_free calls it: the
\* bitmap of self.directory as a list of booleans, the file is not read
GetBlocksStatus ==
    /\ nops < MaxOps
    /\ op' = [NoOp EXCEPT !.name = "get_blocks_status"]
    /\ result' = get_blocks_status_error(directory)
    /\ ret' = IF get_blocks_status_error(directory) # "ok" THEN None
              ELSE LET st == get_blocks_status_from_directory(directory) IN
                   [i \in 1..(total_usable_blocks + 1) |-> st[i - 1]] \o <<>>
    /\ blocks' = <<>>
    /\ slots' = <<>>
    /\ records' = <<>>
    /\ planned' = <<>>
    /\ pre' = img
    /\ nops' = nops + 1
    /\ UNCHANGED <<disk, formatted, img, directory, codecvars>>

\* find_free_blocks(n) on self.directory as the last scan left it
FindFreeBlocks ==
    /\ nops < MaxOps
    /\ \E n \in Asks :
          LET found == find_free_blocks(directory, n) IN
          /\ op' = [NoOp EXCEPT !.name = "find_free_blocks", !.n = n]
          /\ result' = find_free_blocks_error(directory, found)
          /\ ret' = IF find_free_blocks_error(directory, found) # "ok"
                    THEN None ELSE found.free_blocks
    /\ blocks' = <<>>
    /\ slots' = <<>>
    /\ records' = <<>>
    /\ planned' = <<>>
    /\ pre' = img
    /\ nops' = nops + 1
    /\ UNCHANGED <<disk, formatted, img, directory, codecvars>>

\* write_block(n, data)
WriteBlock ==
    /\ nops < MaxOps
    /\ formatted
    /\ \E n \in 0..MaxBlock, data \in BlockData :
          /\ op' = [NoOp EXCEPT !.name = "write_block", !.n = n,
                                !.data = data]
          /\ result' = IF write_block_ok(data) THEN "ok" ELSE "ValueError"
          /\ img' = IF write_block_ok(data) THEN write_block(img, n, data)
                    ELSE img
    /\ ret' = None
    /\ blocks' = <<>>
    /\ slots' = <<>>
    /\ records' = <<>>
    /\ planned' = <<>>
    /\ pre' = img
    /\ nops' = nops + 1
    /\ UNCHANGED <<disk, formatted, directory, codecvars>>

\* read_block(n)
ReadBlock ==
    /\ nops < MaxOps
    /\ formatted
    /\ \E n \in 0..MaxBlock :
          /\ op' = [NoOp EXCEPT !.name = "read_block", !.n = n]
          /\ ret' = read_block(img, n)
    /\ result' = "ok"
    /\ blocks' = <<>>
    /\ slots' = <<>>
    /\ records' = <<>>
    /\ planned' = <<>>
    /\ pre' = img
    /\ nops' = nops + 1
    /\ UNCHANGED <<disk, formatted, img, directory, codecvars>>

\* what a tool that writes the image leaves alone
Tool(name, path, data, n, outcome, image, value) ==
    /\ nops < MaxOps
    /\ formatted
    /\ op' = [NoOp EXCEPT !.name = name, !.filename = path, !.data = data,
                          !.n = n]
    /\ result' = outcome
    /\ img' = image
    /\ ret' = value
    /\ blocks' = <<>>
    /\ slots' = <<>>
    /\ records' = <<>>
    /\ planned' = <<>>
    /\ pre' = img
    /\ nops' = nops + 1
    /\ UNCHANGED <<disk, formatted, directory, codecvars>>

\* write_position(position, data)
WritePosition ==
    \E position \in Positions, data \in HostData :
        Tool("write_position", <<>>, data, position, "ok",
             write_position(img, position, data), None)

\* write_directory_entry(entry_number, entry_data)
WriteDirectoryEntry ==
    \E entry_number \in 0..MaxEntry,
       entry_data \in {<<90>>, ImageRecord(0, <<65>>, 0, <<2>>),
                       ImageRecord(0, <<201>>, 0, <<3>>)} :
        Tool("write_directory_entry", <<>>, entry_data, entry_number, "ok",
             write_directory_entry(img, entry_number, entry_data), None)

\* putsys(filename), the host file holding data
PutSys ==
    \E data \in SysData :
        Tool("putsys", <<115>>, data, 0,
             IF putsys_ok(data) THEN "ok" ELSE "ValueError",
             IF putsys_ok(data) THEN putsys(img, data) ELSE img, None)

\* put_at_block(filename, block), the host file holding data
PutAtBlock ==
    \E n \in 0..MaxBlock, data \in HostData :
        Tool("put_at_block", <<115>>, data, n, "ok",
             put_at_block(img, data, n), None)

\* put_file_at_offset(filename, offset), the host file holding data
PutFileAtOffset ==
    \E offset \in Positions, data \in HostData :
        LET put == put_file_at_offset(img, data, offset) IN
        Tool("put_file_at_offset", <<115>>, data, offset, "ok",
             put.image, put.ret)

\* put_file(filename), the host file holding data
PutFile ==
    /\ nops < MaxOps
    /\ formatted
    /\ \E path \in HostPaths, data \in FileData :
        \E filename \in {put_file_name(path)},
           filetype \in {put_file_type(path)} :
          LET w == write_file(img, filename, filetype, data) IN
          /\ img' = w.image
          /\ directory' = w.directory
          /\ op' = [NoOp EXCEPT !.name = "put_file", !.filename = path,
                                !.data = data]
          /\ result' = put_file_error(w.result)
          /\ ret' = None
          /\ blocks' = w.blocks
          /\ slots' = w.slots
          /\ records' = w.records
          /\ planned' = w.entries
    /\ pre' = img
    /\ nops' = nops + 1
    /\ UNCHANGED <<disk, formatted, codecvars>>

Next ==
    \/ InitializeDisk
    \/ ReadDirectory
    \/ WriteFile
    \/ ReadFile
    \/ DeleteFile

Spec == Init /\ [][Next]_vars

\* The tool opened on an existing image file: CPMDisk(drivename, ...) reads
\* nothing, the handlers then work on the bytes they find.
ImageInit ==
    /\ disk \in Geometries
    /\ formatted = TRUE
    /\ img \in DiskImages
    /\ directory = <<>>
    /\ op = [NoOp EXCEPT !.name = "open"]
    /\ result = "ok"
    /\ ret = None
    /\ blocks = <<>>
    /\ slots = <<>>
    /\ records = <<>>
    /\ planned = <<>>
    /\ pre = NoFile
    /\ nops = 1
    /\ cpc = "none"
    /\ cuse16 = FALSE
    /\ centry = CPMDirectoryEntry(FALSE, 0, <<>>, <<>>, 0, 0, 0, <<>>)
    /\ cbytes = <<>>
    /\ cdecoded = CPMDirectoryEntry(FALSE, 0, <<>>, <<>>, 0, 0, 0, <<>>)

ImageSpec == ImageInit /\ [][Next]_vars

\* The example disk and the two disks at the pointer-width boundary:
\* format, write, scan
SurveyInit ==
    /\ disk \in SurveyGeometries
    /\ formatted = FALSE
    /\ img = NoFile
    /\ directory = <<>>
    /\ op = NoOp
    /\ result = "ok"
    /\ ret = None
    /\ blocks = <<>>
    /\ slots = <<>>
    /\ records = <<>>
    /\ planned = <<>>
    /\ pre = NoFile
    /\ nops = 0
    /\ cpc = "none"
    /\ cuse16 = FALSE
    /\ centry = CPMDirectoryEntry(FALSE, 0, <<>>, <<>>, 0, 0, 0, <<>>)
    /\ cbytes = <<>>
    /\ cdecoded = CPMDirectoryEntry(FALSE, 0, <<>>, <<>>, 0, 0, 0, <<>>)

SurveyNext ==
    \/ InitializeDisk
    \/ ReadDirectory
    \/ WriteFile

SurveySpec == SurveyInit /\ [][SurveyNext]_vars

\* A small disk and the file names and types that need validation:
\* format, write, scan
NameInit ==
    /\ disk = GeomNames
    /\ formatted = FALSE
    /\ img = NoFile
    /\ directory = <<>>
    /\ op = NoOp
    /\ result = "ok"
    /\ ret = None
    /\ blocks = <<>>
    /\ slots = <<>>
    /\ records = <<>>
    /\ planned = <<>>
    /\ pre = NoFile
    /\ nops = 0
    /\ cpc = "none"
    /\ cuse16 = FALSE
    /\ centry = CPMDirectoryEntry(FALSE, 0, <<>>, <<>>, 0, 0, 0, <<>>)
    /\ cbytes = <<>>
    /\ cdecoded = CPMDirectoryEntry(FALSE, 0, <<>>, <<>>, 0, 0, 0, <<>>)

NameNext ==
    \/ InitializeDisk
    \/ ReadDirectory
    \/ WriteFile

NameSpec == NameInit /\ [][NameNext]_vars

\* The handlers called while the image file does not exist. With a
\* directory (drm > 0) each one starts with read_directory_entry(0), whose
\* read_position cannot open the file and ends the process. Without one the
\* loops over range(self.drm) read nothing, and each handler goes on with
\* an empty directory.
AbsentOutcome(name, filename, filetype, data, outcome, blks, entries) ==
    /\ nops < MaxOps
    /\ ~formatted
    /\ op' = [name |-> name, filename |-> filename, filetype |-> filetype,
              data |-> data, n |-> 0, sector |-> 0]
    /\ result' = outcome
    /\ ret' = None
    /\ blocks' = blks
    /\ slots' = <<>>
    /\ records' = <<>>
    /\ planned' = entries
    /\ directory' = <<>>
    /\ pre' = img
    /\ nops' = nops + 1
    /\ UNCHANGED <<disk, formatted, img, codecvars>>

\* read_directory: self.directory = [], then the scan of range(self.drm)
absent_read_directory ==
    IF drm > 0 THEN read_position_error(FALSE) ELSE "ok"

\* read_file: no slot is read, no entry matches, None is returned
absent_read_file == IF drm > 0 THEN read_position_error(FALSE) ELSE "ok"

\* delete_file: no slot is read, the raise after the loop is reached
absent_delete_file ==
    IF drm > 0 THEN read_position_error(FALSE) ELSE "FileNotFoundError"

\* write_file: the entries are planned on the empty directory, and the
\* first write_block cannot open the file
absent_write_file(filename, filetype, data) ==
    LET plan == create_entries_for_file(filename, filetype, Len(data), <<>>)
    IN IF absent_read_directory # "ok"
       THEN [result |-> absent_read_directory, blocks |-> <<>>,
             entries |-> <<>>]
       ELSE IF plan.error
       THEN [result |-> plan.raised, blocks |-> <<>>, entries |-> <<>>]
       ELSE [result |-> IF concat_allocations(plan.entries) = <<>> THEN "ok"
                        ELSE read_position_error(FALSE),
             blocks |-> plan.blocks, entries |-> plan.entries]

ReadDirectoryAbsent ==
    AbsentOutcome("read_directory", <<>>, <<>>, <<>>, absent_read_directory,
                  <<>>, <<>>)

WriteFileAbsent ==
    \E filename \in FileNames, filetype \in FileTypes, data \in FileData :
        \E w \in {absent_write_file(filename, filetype, data)} :
            AbsentOutcome("write_file", filename, filetype, data, w.result,
                          w.blocks, w.entries)

ReadFileAbsent ==
    \E filename \in FileNames, filetype \in FileTypes :
        AbsentOutcome("read_file", filename, filetype, <<>>,
                      absent_read_file, <<>>, <<>>)

DeleteFileAbsent ==
    \E filename \in FileNames :
        AbsentOutcome("delete_file", filename, <<>>, <<>>,
                      absent_delete_file, <<>>, <<>>)

\* put_file reads the host file, then calls write_file
PutFileAbsent ==
    \E path \in HostPaths, data \in FileData :
        \E w \in {absent_write_file(put_file_name(path), put_file_type(path),
                                    data)} :
            AbsentOutcome("put_file", path, <<>>, data,
                          put_file_error(w.result), w.blocks, w.entries)

\* find_free_directory_entry() on the image file as it is
FindFreeDirectoryEntry ==
    /\ nops < MaxOps
    /\ formatted
    /\ op' = [NoOp EXCEPT !.name = "find_free_directory_entry"]
    /\ result' = find_free_directory_entry_error(img)
    /\ ret' = IF find_free_directory_entry_error(img) # "ok" THEN None
              ELSE find_free_directory_entry(img)
    /\ blocks' = <<>>
    /\ slots' = <<>>
    /\ records' = <<>>
    /\ planned' = <<>>
    /\ pre' = img
    /\ nops' = nops + 1
    /\ UNCHANGED <<disk, formatted, img, directory, codecvars>>

\* the disk with a directory and the disk without one
FaultGeometries == {GeomAligned, GeomNoDir}

\* Image files cut short, as a copy that broke off leaves them: the file
\* ends where the directory starts; it ends after slot 0, which holds the
\* file "A.T"; it ends after slot 0, which is free; it ends eight bytes into
\* slot 0.
TruncatedImages ==
    {ZeroFile(directory_start),
     write_position(ZeroFile(directory_start), directory_start,
                    ImageRecord(0, <<65>>, 0, <<directory_blocks>>)),
     write_position(ZeroFile(directory_start), directory_start,
                    Fill(32, EMPTY_DIR)),
     write_position(ZeroFile(directory_start), directory_start,
                    <<0, 65, 32, 32, 32, 32, 32, 32>>)}

FaultInit ==
    /\ disk \in FaultGeometries
    /\ img \in {NoFile} \cup (IF drm > 0 THEN TruncatedImages ELSE {})
    /\ formatted = (img # NoFile)
    /\ directory = <<>>
    /\ op = IF img = NoFile THEN NoOp ELSE [NoOp EXCEPT !.name = "open"]
    /\ result = "ok"
    /\ ret = None
    /\ blocks = <<>>
    /\ slots = <<>>
    /\ records = <<>>
    /\ planned = <<>>
    /\ pre = img
    /\ nops = 0
    /\ cpc = "none"
    /\ cuse16 = FALSE
    /\ centry = CPMDirectoryEntry(FALSE, 0, <<>>, <<>>, 0, 0, 0, <<>>)
    /\ cbytes = <<>>
    /\ cdecoded = CPMDirectoryEntry(FALSE, 0, <<>>, <<>>, 0, 0, 0, <<>>)

FaultNext ==
    \/ InitializeDisk
    \/ ReadDirectory
    \/ WriteFile
    \/ ReadFile
    \/ DeleteFile
    \/ ReadDirectoryAbsent
    \/ WriteFileAbsent
    \/ ReadFileAbsent
    \/ DeleteFileAbsent
    \/ PutFileAbsent
    \/ FindFreeDirectoryEntry

FaultSpec == FaultInit /\ [][FaultNext]_vars

\* The small disks with the bitmap asked for between the other calls
BitmapInit ==
    /\ disk \in BitmapGeometries
    /\ formatted = FALSE
    /\ img = NoFile
    /\ directory = <<>>
    /\ op = NoOp
    /\ result = "ok"
    /\ ret = None
    /\ blocks = <<>>
    /\ slots = <<>>
    /\ records = <<>>
    /\ planned = <<>>
    /\ pre = NoFile
    /\ nops = 0
    /\ cpc = "none"
    /\ cuse16 = FALSE
    /\ centry = CPMDirectoryEntry(FALSE, 0, <<>>, <<>>, 0, 0, 0, <<>>)
    /\ cbytes = <<>>
    /\ cdecoded = CPMDirectoryEntry(FALSE, 0, <<>>, <<>>, 0, 0, 0, <<>>)

BitmapNext ==
    \/ InitializeDisk
    \/ ReadDirectory
    \/ WriteFile
    \/ DeleteFile
    \/ GetBlocksStatus

BitmapSpec == BitmapInit /\ [][BitmapNext]_vars

\* A disk with and a disk without directory blocks, the allocator asked
\* directly between the other calls
AllocInit ==
    /\ disk \in AllocGeometries
    /\ formatted = FALSE
    /\ img = NoFile
    /\ directory = <<>>
    /\ op = NoOp
    /\ result = "ok"
    /\ ret = None
    /\ blocks = <<>>
    /\ slots = <<>>
    /\ records = <<>>
    /\ planned = <<>>
    /\ pre = NoFile
    /\ nops = 0
    /\ cpc = "none"
    /\ cuse16 = FALSE
    /\ centry = CPMDirectoryEntry(FALSE, 0, <<>>, <<>>, 0, 0, 0, <<>>)
    /\ cbytes = <<>>
    /\ cdecoded = CPMDirectoryEntry(FALSE, 0, <<>>, <<>>, 0, 0, 0, <<>>)

AllocNext ==
    \/ InitializeDisk
    \/ ReadDirectory
    \/ WriteFile
    \/ FindFreeBlocks

AllocSpec == AllocInit /\ [][AllocNext]_vars

\* The small disks, written and read by block number, by position and from
\* host files
BlockInit ==
    /\ disk \in Geometries
    /\ formatted = FALSE
    /\ img = NoFile
    /\ directory = <<>>
    /\ op = NoOp
    /\ result = "ok"
    /\ ret = None
    /\ blocks = <<>>
    /\ slots = <<>>
    /\ records = <<>>
    /\ planned = <<>>
    /\ pre = NoFile
    /\ nops = 0
    /\ cpc = "none"
    /\ cuse16 = FALSE
    /\ centry = CPMDirectoryEntry(FALSE, 0, <<>>, <<>>, 0, 0, 0, <<>>)
    /\ cbytes = <<>>
    /\ cdecoded = CPMDirectoryEntry(FALSE, 0, <<>>, <<>>, 0, 0, 0, <<>>)

BlockNext ==
    \/ InitializeDisk
    \/ WriteBlock
    \/ ReadBlock
    \/ WritePosition
    \/ WriteDirectoryEntry
    \/ PutSys
    \/ PutAtBlock
    \/ PutFileAtOffset
    \/ PutFile

BlockSpec == BlockInit /\ [][BlockNext]_vars

\* The two disks at the edge between 8-bit and 16-bit pointers, filled
WidthInit ==
    /\ disk \in WidthGeometries
    /\ formatted = FALSE
    /\ img = NoFile
    /\ directory = <<>>
    /\ op = NoOp
    /\ result = "ok"
    /\ ret = None
    /\ blocks = <<>>
    /\ slots = <<>>
    /\ records = <<>>
    /\ planned = <<>>
    /\ pre = NoFile
    /\ nops = 0
    /\ cpc = "none"
    /\ cuse16 = FALSE
    /\ centry = CPMDirectoryEntry(FALSE, 0, <<>>, <<>>, 0, 0, 0, <<>>)
    /\ cbytes = <<>>
    /\ cdecoded = CPMDirectoryEntry(FALSE, 0, <<>>, <<>>, 0, 0, 0, <<>>)

WidthNext ==
    \/ InitializeDisk
    \/ ReadDirectory
    \/ WriteFile
    \/ FindFreeBlocks

WidthSpec == WidthInit /\ [][WidthNext]_vars

\* The translations between block, (track, sector) and byte offset
TranslationInit ==
    /\ disk \in TranslationGeometries
    /\ formatted = FALSE
    /\ img = NoFile
    /\ directory = <<>>
    /\ op = NoOp
    /\ result = "ok"
    /\ ret = None
    /\ blocks = <<>>
    /\ slots = <<>>
    /\ records = <<>>
    /\ planned = <<>>
    /\ pre = NoFile
    /\ nops = 0
    /\ cpc = "none"
    /\ cuse16 = FALSE
    /\ centry = CPMDirectoryEntry(FALSE, 0, <<>>, <<>>, 0, 0, 0, <<>>)
    /\ cbytes = <<>>
    /\ cdecoded = CPMDirectoryEntry(FALSE, 0, <<>>, <<>>, 0, 0, 0, <<>>)

\* block = (track * sectors_per_track + sector) >> bsh; block -= off_blocks
block(track, sector) ==
    ((track * disk.sectors_per_track + sector) \div (2 ^ disk.bsh))
        - off_blocks

\* the reserved blocks left out of the linear sector number
track_sector_no_off(block_number) ==
    LET linear_sector_number == block_number * (2 ^ disk.bsh)
    IN <<linear_sector_number \div disk.sectors_per_track,
         linear_sector_number % disk.sectors_per_track>>

\* block += off_blocks; linear_sector_number = block << bsh;
\* (linear_sector_number // sectors_per_track,
\*  linear_sector_number % sectors_per_track)
track_sector(block_number) ==
    LET linear_sector_number == (block_number + off_blocks) * (2 ^ disk.bsh)
    IN <<linear_sector_number \div disk.sectors_per_track,
         linear_sector_number % disk.sectors_per_track>>

\* track * sectors_per_track * sector_size + sector * sector_size
track_sector_offset(track, sector) ==
    (track * disk.sectors_per_track * disk.sector_size)
        + (sector * disk.sector_size)

\* (offset // (sectors_per_track * sector_size),
\*  (offset % (sectors_per_track * sector_size)) // sector_size)
offset_to_track_sector(offset) ==
    <<offset \div (disk.sectors_per_track * disk.sector_size),
      (offset % (disk.sectors_per_track * disk.sector_size))
          \div disk.sector_size>>

\* what a translation leaves alone: it reads the geometry only
Translated(name, n, sector, value) ==
    /\ nops < MaxOps
    /\ op' = [NoOp EXCEPT !.name = name, !.n = n, !.sector = sector]
    /\ result' = "ok"
    /\ ret' = value
    /\ blocks' = <<>>
    /\ slots' = <<>>
    /\ records' = <<>>
    /\ planned' = <<>>
    /\ pre' = img
    /\ nops' = nops + 1
    /\ UNCHANGED <<disk, formatted, img, directory, codecvars>>

\* track_sector(block)
TrackSector ==
    \E b \in 0..MaxGeoBlock :
        Translated("track_sector", b, 0, track_sector(b))

\* block(track, sector)
Block ==
    \E t \in 0..MaxTrack, s \in 0..(disk.sectors_per_track - 1) :
        Translated("block", t, s, block(t, s))

\* track_sector_offset(track, sector)
TrackSectorOffset ==
    \E t \in 0..MaxTrack, s \in 0..(disk.sectors_per_track - 1) :
        Translated("track_sector_offset", t, s, track_sector_offset(t, s))

\* offset_to_track_sector(offset), sector_size * sectors_per_track > offset
\* for track 0 and so on
OffsetToTrackSector ==
    \E offset \in 0..((MaxTrack + 1) * disk.sectors_per_track
                         * disk.sector_size - 1) :
        /\ offset % disk.sector_size \in {0, disk.sector_size - 1}
        /\ Translated("offset_to_track_sector", offset, 0,
                      offset_to_track_sector(offset))

TranslationNext ==
    \/ TrackSector
    \/ Block
    \/ TrackSectorOffset
    \/ OffsetToTrackSector

TranslationSpec == TranslationInit /\ [][TranslationNext]_vars

----------------------------------------------------------------------------
(* The codec on its own: build an entry, encode it, decode the bytes *)

\* "ABCDEFGH", "A", "A B"
CodecNames == {<<65, 66, 67, 68, 69, 70, 71, 72>>, <<65>>, <<65, 32, 66>>}
\* "TXT", "T"
CodecTypes == {<<84, 88, 84>>, <<84>>}

\* full-length pointer lists: 16 one-byte or 8 two-byte pointers
CodecAllocations(wide) ==
    IF wide
    THEN {Fill(8, 0), [i \in 1..8 |-> 255 + i] \o <<>>,
          [i \in 1..8 |-> 65536 - i] \o <<>>}
    ELSE {Fill(16, 0), [i \in 1..16 |-> i] \o <<>>,
          [i \in 1..16 |-> 256 - i] \o <<>>}

CodecInit ==
    /\ disk = GeomAligned
    /\ formatted = FALSE
    /\ img = NoFile
    /\ directory = <<>>
    /\ op = NoOp
    /\ result = "ok"
    /\ ret = None
    /\ blocks = <<>>
    /\ slots = <<>>
    /\ records = <<>>
    /\ planned = <<>>
    /\ pre = NoFile
    /\ nops = 0
    /\ cpc = "entry"
    /\ cuse16 \in BOOLEAN
    /\ \E user_number \in {0, 31}, filename \in CodecNames,
          filetype \in CodecTypes, extent_low \in {0, 31},
          extent_high \in {0, 1, 63}, record_count \in {0, 255},
          block_allocation \in CodecAllocations(cuse16) :
          centry = CPMDirectoryEntry(cuse16, user_number, filename, filetype,
                                     extent_low, extent_high, record_count,
                                     block_allocation)
    /\ cbytes = <<>>
    /\ cdecoded = CPMDirectoryEntry(FALSE, 0, <<>>, <<>>, 0, 0, 0, <<>>)

CodecEncode ==
    /\ cpc = "entry"
    /\ to_bytes_error(centry, cuse16) = "ok"
    /\ cbytes' = to_bytes(centry, cuse16)
    /\ cpc' = "encoded"
    /\ UNCHANGED <<diskvars, cuse16, centry, cdecoded>>

CodecDecode ==
    /\ cpc = "encoded"
    /\ from_bytes_error(cbytes) = "ok"
    /\ cdecoded' = from_bytes(cuse16, cbytes)
    /\ cpc' = "decoded"
    /\ UNCHANGED <<diskvars, cuse16, centry, cbytes>>

CodecNext == CodecEncode \/ CodecDecode

CodecSpec == CodecInit /\ [][CodecNext]_vars

----------------------------------------------------------------------------
(* Vocabulary of the properties, read off the image bytes *)

SlotStatus(image, n) == read_directory_entry(image, n)[1]

\* slots of range(drm) whose status byte is not the unused sentinel
LiveSlots(image) == {n \in 0..(drm - 1) : SlotStatus(image, n) # EMPTY_DIR}

FreeSlots(image) == {n \in 0..(drm - 1) : SlotStatus(image, n) = EMPTY_DIR}

\* the pointer field of a slot in the disk's pointer width
SlotPointers(image, n) ==
    LET al == Slice(read_directory_entry(image, n), 16, 32) IN
    IF use_16bit
    THEN [k \in 1..8 |-> al[2 * k - 1] + 256 * al[2 * k]]
    ELSE al

\* the non-zero block numbers the live slots point to
LiveBlocks(image) ==
    UNION {{SlotPointers(image, n)[k] : k \in 1..blocks_per_entry} :
              n \in LiveSlots(image)} \ {0}

BlocksNeeded(data) == CeilDiv(Len(data), block_size)
ExtentsNeeded(data) == CeilDiv(BlocksNeeded(data), blocks_per_entry)

FreeBlockCount(image) ==
    LET st == get_blocks_status_from_directory(read_directory(image)) IN
    Cardinality({b \in 0..total_usable_blocks : st[b]})

----------------------------------------------------------------------------
(* Properties *)

\* C1: decoding the encoding of an entry gives back the entry: status,
\* filename, filetype, extent_low, extent_high, record_count and the block
\* pointers, in both pointer widths.
C1_RoundTrip ==
    cpc = "decoded" =>
        /\ cdecoded.status = centry.status
        /\ cdecoded.filename = centry.filename
        /\ cdecoded.filetype = centry.filetype
        /\ cdecoded.extent_low = centry.extent_low
        /\ cdecoded.extent_high = centry.extent_high
        /\ cdecoded.record_count = centry.record_count
        /\ cdecoded.block_allocation = centry.block_allocation

\* C2: on a freshly initialized image, write_file(n, t, data) with
\* 0 < len(data) <= blocks_per_entry * block_size followed by
\* read_file(n, t) returns exactly data.
C2_WriteThenRead ==
    [][(/\ op.name = "write_file"
        /\ pre = initialize_disk.image
        /\ Len(op.filename) <= 8
        /\ 0 < Len(op.data)
        /\ Len(op.data) <= blocks_per_entry * block_size
        /\ op'.name = "read_file"
        /\ op'.filename = op.filename
        /\ op'.filetype = op.filetype)
       => (result' = "ok" /\ ret' = op.data)]_vars

\* C3: after write_file(n, t, data) of a single-extent file and then
\* delete_file(n), read_file(n, t) returns not-found and every block the
\* entry referenced reads back as block_size zero bytes.
C3_DeleteThenRead ==
    [][(/\ op.name = "write_file"
        /\ result = "ok"
        /\ Len(slots) = 1
        /\ Len(op.filename) <= 8
        /\ op'.name = "delete_file"
        /\ op'.filename = op.filename)
       => (/\ result' = "ok"
           /\ read_file(img', op.filename, op.filetype).ret = None
           /\ \A i \in 1..Len(blocks) :
                 read_block(img', blocks[i]) = Fill(block_size, 0))]_vars

\* C4: a write_file that needs more blocks than the free bitmap has free
\* fails with the capacity error and leaves every byte of the image as it
\* was.
C4_CapacityExhaustion ==
    (op.name = "write_file" /\ BlocksNeeded(op.data) > FreeBlockCount(pre))
        => (result = "Exception" /\ img = pre /\ slots = <<>>)

C4_Witness ==
    /\ op.name = "write_file"
    /\ BlocksNeeded(op.data) > FreeBlockCount(pre)
    /\ LiveSlots(pre) # {}
    /\ result = "Exception"

\* C5: a write_file that must record more extents than the directory has
\* free slots fails with the capacity error; a write_file that succeeds wrote
\* each entry to a distinct slot that held the unused sentinel, and changed
\* no slot that was live.
C5_SlotExhaustion ==
    op.name = "write_file" =>
        /\ Cardinality(FreeSlots(pre)) < ExtentsNeeded(op.data)
               => result = "Exception"
        /\ result = "ok" =>
               /\ \A i, j \in 1..Len(slots) :
                     i # j => slots[i].slot # slots[j].slot
               /\ \A i \in 1..Len(slots) : slots[i].held[1] = EMPTY_DIR
               /\ \A n \in LiveSlots(pre) :
                     read_directory_entry(img, n) = read_directory_entry(pre, n)

\* C6: every record write_file encodes and writes to a slot is exactly 32
\* bytes long.
C6_RecordIs32Bytes ==
    op.name = "write_file" =>
        \A i \in 1..Len(records) : Len(records[i]) = 32

\* C7: every block find_free_blocks hands to write_file is at or above
\* first_usable_block = total_blocks - total_usable_blocks + 1, hence not one
\* of the directory blocks 0 .. directory_blocks - 1.
C7_AllocatorAboveDirectory ==
    op.name = "write_file" =>
        \A i \in 1..Len(blocks) :
            /\ blocks[i] >= total_blocks - total_usable_blocks + 1
            /\ blocks[i] >= first_usable_block
            /\ blocks[i] \notin 0..(directory_blocks - 1)

C7_Witness ==
    /\ op.name = "write_file"
    /\ result = "ok"
    /\ LiveSlots(pre) # {}
    /\ Len(blocks) >= 2

\* C8: after read_directory the free bitmap marks as used every
\* block a live slot points to and every block below directory_blocks, and
\* marks every other block of 0 .. total_usable_blocks free.
C8_FreeBitmap ==
    op.name = "read_directory" =>
        LET st == get_blocks_status_from_directory(directory) IN
        /\ \A b \in LiveBlocks(img) : b \in DOMAIN st /\ ~st[b]
        /\ \A b \in 0..(directory_blocks - 1) : ~st[b]
        /\ \A b \in 0..total_usable_blocks :
              (b >= directory_blocks /\ b \notin LiveBlocks(img)) => st[b]

\* C9: initialize_disk leaves an image of tracks * sectors_per_track *
\* sector_size bytes in which the status byte of the slots 0 .. drm - 1 is
\* 0xE5 and every other byte is zero; then the directory scan returns no
\* entry and the first free slot is slot 0.
C9_Initialize ==
    op.name = "initialize_disk" =>
        /\ img.len = disk.tracks * disk.sectors_per_track * disk.sector_size
        /\ \A p \in 0..(img.len - 1) :
              ByteAt(img, p) = IF \E n \in 0..(drm - 1) :
                                     p = directory_start + 32 * n
                               THEN 229 ELSE 0
        /\ read_directory(img) = <<>>
        /\ find_free_directory_entry(img) = 0

\* the slots of range(drm) whose filename matches the argument of delete_file
NameMatches(image, filename) ==
    {n \in 0..(drm - 1) :
        strip(slot_entry(image, n).filename) = upper(filename)}

FirstPointers(image, n) ==
    LET al == SlotPointers(image, n)
        stop == {k \in 1..Len(al) : al[k] = 0}
        last == IF stop = {} THEN Len(al)
                ELSE (CHOOSE k \in stop : \A m \in stop : k <= m) - 1
    IN {al[k] : k \in 1..last}

\* C10: when several slots hold the file name, delete_file(name) gives the
\* lowest of them the unused-sentinel status, zero-fills the blocks it points
\* to before its first zero pointer, and changes no other slot.
C10_DeleteFirstMatch ==
    (op.name = "delete_file"
     /\ Cardinality(NameMatches(pre, op.filename)) >= 2)
        => LET hits == NameMatches(pre, op.filename)
               first == CHOOSE n \in hits : \A m \in hits : n <= m
           IN /\ result = "ok"
              /\ SlotStatus(img, first) = EMPTY_DIR
              /\ \A b \in FirstPointers(pre, first) :
                    read_block(img, b) = Fill(block_size, 0)
              /\ \A n \in 0..(drm - 1) \ {first} :
                    read_directory_entry(img, n) = read_directory_entry(pre, n)

\* the slots of range(drm) that hold the file: live, name and type matching
FileSlots(image, filename, filetype) ==
    {n \in LiveSlots(image) :
        /\ strip(slot_entry(image, n).filename) = upper(filename)
        /\ strip(slot_entry(image, n).filetype) = upper(filetype)}

\* the pointers of a slot before its first zero pointer, in order
PointersBeforeZero(image, n) ==
    LET al == SlotPointers(image, n)
        stop == {k \in 1..Len(al) : al[k] = 0}
        last == IF stop = {} THEN Len(al)
                ELSE (CHOOSE k \in stop : \A m \in stop : k <= m) - 1
    IN SubSeq(al, 1, last)

RECURSIVE BlocksOf(_, _)
BlocksOf(image, pointers) ==
    IF pointers = <<>> THEN <<>>
    ELSE read_block(image, pointers[1]) \o BlocksOf(image, Tail(pointers))

\* the blocks of the slots of a set, lowest slot first
RECURSIVE SlotData(_, _)
SlotData(image, set) ==
    IF set = {} THEN <<>>
    ELSE LET n == CHOOSE k \in set : \A m \in set : k <= m IN
         BlocksOf(image, PointersBeforeZero(image, n))
         \o SlotData(image, set \ {n})

\* C11: read_file(name, type) returns not-found when no live slot holds the
\* file; otherwise it returns the blocks of the matching slots, lowest slot
\* first, each slot up to its first zero pointer; a slot whose status is the
\* unused sentinel contributes nothing.
C11_ReadFile ==
    op.name = "read_file" =>
        LET hits == FileSlots(pre, op.filename, op.filetype) IN
        /\ result = "ok"
        /\ ret = IF hits = {} THEN None ELSE SlotData(pre, hits)

\* the live slots whose name and type bytes are ASCII
DecodableSlots(image) ==
    {n \in LiveSlots(image) :
        IsAscii(Slice(read_directory_entry(image, n), 1, 12))}

\* the decoded entries of the slots of a set, lowest slot first
RECURSIVE SlotEntries(_, _)
SlotEntries(image, set) ==
    IF set = {} THEN <<>>
    ELSE LET n == CHOOSE k \in set : \A m \in set : k <= m IN
         <<slot_entry(image, n)>> \o SlotEntries(image, set \ {n})

\* C12: on any image read_directory ends without raising and returns the
\* entry of every live slot of range(drm) that decodes; a slot that does not
\* decode, the first live slot included, is skipped and the scan goes on.
C12_PartialDirectory ==
    op.name = "read_directory" =>
        /\ result = "ok"
        /\ directory = SlotEntries(pre, DecodableSlots(pre))

\* the bytes the pointers of one entry cover
ExtentBytes == block_size * (IF total_usable_blocks > 255 THEN 8 ELSE 16)

\* C13: when the free blocks suffice, the plan for a file of k * block_size *
\* blocks_per_entry bytes (k >= 1) has exactly k entries; entry i has
\* extent_low = i, the i-th slice of blocks_per_entry blocks of the allocated
\* list, and record_count = blocks_per_entry * block_size / sector_size.
C13_PlanFullExtents ==
    (/\ op.name = "write_file"
     /\ Len(op.data) > 0
     /\ Len(op.data) % ExtentBytes = 0
     /\ BlocksNeeded(op.data) <= FreeBlockCount(pre))
        => LET k == Len(op.data) \div ExtentBytes
               per == ExtentBytes \div block_size
           IN /\ result # "Exception"
              /\ Len(planned) = k
              /\ Len(blocks) = k * per
              /\ \A i \in 0..(k - 1) :
                    /\ planned[i + 1].extent_low = i
                    /\ planned[i + 1].block_allocation
                           = SubSeq(blocks, i * per + 1, (i + 1) * per)
                    /\ planned[i + 1].record_count
                           = ExtentBytes \div sector_size

C13_Witness ==
    /\ op.name = "write_file"
    /\ Len(op.data) = 2 * ExtentBytes
    /\ LiveSlots(pre) # {}
    /\ Len(planned) = 2
    /\ planned[2].extent_low = 1

\* C14: a disk uses one-byte pointers, 16 to an entry, exactly when
\* total_usable_blocks <= 255 and two-byte pointers, 8 to an entry, otherwise
\* (255 gives one-byte, 256 two-byte pointers); the plan of write_file, the
\* records it encodes and the entries the directory scan decodes all use
\* that width.
C14_PointerWidth ==
    LET wide == total_usable_blocks > 255
        per == IF wide THEN 8 ELSE 16
        width == IF wide THEN 2 ELSE 1
    IN /\ use_16bit = wide
       /\ blocks_per_entry = per
       /\ total_usable_blocks = 255 => ~use_16bit
       /\ total_usable_blocks = 256 => use_16bit
       /\ op.name = "write_file" =>
             /\ \A i \in 1..Len(planned) :
                   /\ planned[i].use_16bit = wide
                   /\ Len(planned[i].block_allocation) <= per
                   /\ i < Len(planned)
                         => Len(planned[i].block_allocation) = per
             /\ \A i \in 1..Len(records) :
                   LET al == planned[i].block_allocation
                       fixed == Len(records[i]) - width * Len(al)
                   IN /\ fixed = 5 + Len(planned[i].filename)
                                     + Len(planned[i].filetype)
                      /\ \A j \in 1..Len(al) :
                            al[j] = IF wide
                                    THEN records[i][fixed + 2 * j - 1]
                                         + 256 * records[i][fixed + 2 * j]
                                    ELSE records[i][fixed + j]
       /\ op.name \in {"write_file", "read_directory"} =>
             \A i \in 1..Len(directory) :
                /\ directory[i].use_16bit = wide
                /\ Len(directory[i].block_allocation) = per

C14_Witness ==
    /\ total_usable_blocks = 256
    /\ op.name = "read_directory"
    /\ Len(directory) = 2
    /\ directory[1].block_allocation = <<32, 33, 34, 35, 36, 37, 38, 39>>
    /\ directory[2].block_allocation = <<40, 41, 42, 43, 44, 45, 46, 47>>

\* C15: the disk built with tracks 77, sectors_per_track 26, sector_size 128,
\* block_size 1024, bsh 3, drm 64 and off 2 has size 256256, directory_blocks
\* 2, total_usable_blocks 241 and one-byte pointers.
C15_ExampleGeometry ==
    disk = GeomExample =>
        /\ size = 256256
        /\ directory_blocks = 2
        /\ total_usable_blocks = 241
        /\ ~use_16bit

\* C16: on the example geometry a write_file of 2050 bytes succeeds with
\* exactly 3 blocks and exactly one planned entry, written to one slot, with
\* extent 0 and record_count 17; on the freshly initialized image these are
\* blocks 2, 3, 4 in slot 0, and a name of up to 8 characters decodes from
\* that slot with extent 0, record_count 17 and those three pointers alone.
C16_ExampleFile ==
    (/\ disk = GeomExample
     /\ op.name = "write_file"
     /\ Len(op.data) = 2050
     /\ BlocksNeeded(op.data) <= FreeBlockCount(pre)
     /\ FreeSlots(pre) # {})
        => /\ result = "ok"
           /\ Len(blocks) = 3
           /\ Cardinality({blocks[i] : i \in 1..3}) = 3
           /\ Len(planned) = 1
           /\ planned[1].extent = 0
           /\ planned[1].extent_low = 0
           /\ planned[1].record_count = 17
           /\ planned[1].block_allocation = blocks
           /\ Len(slots) = 1
           /\ pre = initialize_disk.image =>
                 /\ blocks = <<2, 3, 4>>
                 /\ slots[1].slot = 0
           /\ Len(planned[1].filename) = 8 =>
                 LET e == slot_entry(img, slots[1].slot) IN
                 /\ e.extent = 0
                 /\ e.record_count = 17
                 /\ e.block_allocation = blocks \o Fill(13, 0)

C16_Witness ==
    /\ disk = GeomExample
    /\ op.name = "write_file"
    /\ Len(op.data) = 2050
    /\ pre = initialize_disk.image
    /\ result = "ok"
    /\ blocks = <<2, 3, 4>>
    /\ LiveSlots(img) = {0}
    /\ slot_entry(img, 0).record_count = 17

\* the slots of range(drm), whatever their status, whose eight name bytes
\* spell the name
SlotsNamed(image, filename) ==
    {n \in 0..(drm - 1) :
        strip(Slice(read_directory_entry(image, n), 1, 9)) = upper(filename)}

\* C17: delete_file(name) on an image where no slot holds the name raises
\* FileNotFoundError and leaves every byte of the image as it was.
C17_DeleteNotFound ==
    (op.name = "delete_file" /\ SlotsNamed(pre, op.filename) = {})
        => /\ result = "FileNotFoundError"
           /\ img = pre

\* a file name or type that must be refused: nothing, or a character that is
\* not ASCII, is left once the forbidden characters are dropped
Refused(s) ==
    LET kept == re_sub(ForbiddenChars, s) IN kept = <<>> \/ ~IsAscii(kept)

\* C18: write_file with a file name or a file type of which, once the
\* characters < > . , ; : = ? * [ ] are dropped, nothing or a non-ASCII
\* character is left, raises an error and leaves every directory slot as it
\* was.
C18_EncodingValidation ==
    (op.name = "write_file" /\ (Refused(op.filename) \/ Refused(op.filetype)))
        => /\ result # "ok"
           /\ slots = <<>>
           /\ \A n \in 0..(drm - 1) :
                 read_directory_entry(img, n) = read_directory_entry(pre, n)

\* C19: no call of read_directory, read_file, write_file or delete_file ends
\* the process: a failure to read or write the image file reaches the caller
\* as an error or an exception other than SystemExit.
C19_NoExit ==
    op.name \in {"read_directory", "read_file", "write_file", "delete_file"}
        => result # "SystemExit"

\* the places <<slot, k>> of the non-zero pointers of the live slots
PointerPlaces(image) ==
    {pl \in LiveSlots(image) \X (1..blocks_per_entry) :
        SlotPointers(image, pl[1])[pl[2]] # 0}

\* C20: from the initialized image on, after every write_file and
\* delete_file, whether it succeeds or fails, no non-zero block number stands
\* in the pointers of two live slots, nor twice in the pointers of one slot.
C20_NoSharedBlocks ==
    op.name \in {"write_file", "delete_file"} =>
        \A p \in PointerPlaces(img), q \in PointerPlaces(img) :
            p # q => SlotPointers(img, p[1])[p[2]] # SlotPointers(img, q[1])[q[2]]

\* C21: after initialize_disk and every write_file and delete_file that
\* follows, the image is still tracks * sectors_per_track * sector_size bytes
\* long: every block written lies inside the image.
C21_ImageSize ==
    op.name \in {"initialize_disk", "write_file", "delete_file"} =>
        /\ img.len = size
        /\ \A i \in 1..Len(blocks) :
              directory_start + (blocks[i] + 1) * block_size <= size

\* C22: after a write_file whose last entry has fewer than blocks_per_entry
\* blocks, every slot written decodes to the planned block numbers of its
\* entry followed by zero pointers, whatever the slot held before.
C22_StoredPointers ==
    (/\ op.name = "write_file"
     /\ result = "ok"
     /\ planned # <<>>
     /\ Len(planned[Len(planned)].block_allocation) < blocks_per_entry)
        => /\ Len(slots) = Len(planned)
           /\ \A i \in 1..Len(slots) :
                 SlotPointers(img, slots[i].slot)
                     = ljust(planned[i].block_allocation, blocks_per_entry, 0)

\* the bitmap of the directory slots as they are on the image
FreshBitmap(image) ==
    LET st == get_blocks_status_from_directory(read_directory(image)) IN
    [i \in 1..(total_usable_blocks + 1) |-> st[i - 1]] \o <<>>

\* C23: get_blocks_status_from_directory, called at any point once the
\* image exists, returns the bitmap of the directory slots as they are on
\* the image at that moment.
C23_FreshBitmap ==
    (op.name = "get_blocks_status" /\ formatted) =>
        /\ result = "ok"
        /\ ret = FreshBitmap(img)

\* the k lowest numbers of a set, ascending
RECURSIVE Lowest(_, _)
Lowest(set, k) ==
    IF k <= 0 \/ set = {} THEN <<>>
    ELSE LET m == CHOOSE x \in set : \A y \in set : x <= y IN
         <<m>> \o Lowest(set \ {m}, k - 1)

\* C24: find_free_blocks(n), n >= 0, returns exactly the n lowest free
\* blocks of the bitmap in ascending order when at least n blocks are free,
\* and raises, returning nothing, when fewer are free; also on a disk with
\* directory_blocks = 0.
C24_FirstFit ==
    (op.name = "find_free_blocks" /\ get_used_blocks_error(directory) = "ok")
        => LET st == get_blocks_status_from_directory(directory)
               free == {b \in 0..total_usable_blocks : st[b]}
           IN IF Cardinality(free) >= op.n
              THEN result = "ok" /\ ret = Lowest(free, op.n)
              ELSE result = "Exception" /\ ret = None

\* C25: delete_file of a name a live slot holds retires the lowest such
\* slot; once the directory is read again the bitmap marks free exactly the
\* blocks that slot pointed to besides those free before, and the slot is
\* free for find_free_directory_entry, so that a following write_file gets
\* the lowest free blocks, the freed ones included.
C25_DeleteFrees ==
    (op.name = "delete_file"
     /\ NameMatches(pre, op.filename) \cap LiveSlots(pre) # {})
        => LET hits == NameMatches(pre, op.filename) \cap LiveSlots(pre)
               first == CHOOSE n \in hits : \A m \in hits : n <= m
               before == get_blocks_status_from_directory(read_directory(pre))
               after == get_blocks_status_from_directory(read_directory(img))
           IN /\ result = "ok"
              /\ first \in FreeSlots(img)
              /\ find_free_directory_entry(img) <= first
              /\ \A b \in 0..total_usable_blocks :
                    after[b] = (before[b] \/ (b \in FirstPointers(pre, first)
                                              /\ b >= directory_blocks))

\* C26: after write_block(n, data) with len(data) <= block_size,
\* read_block(n) returns data padded with zero bytes to block_size; with
\* len(data) > block_size write_block raises and the image is as before.
C26_BlockRoundTrip ==
    op.name = "write_block" =>
        IF Len(op.data) <= block_size
        THEN /\ result = "ok"
             /\ read_block(img, op.n) = ljust(op.data, block_size, 0)
        ELSE /\ result # "ok"
             /\ img = pre

\* a / b rounded up
Up(a, b) == (a + b - 1) \div b

RECURSIVE RecordSum(_)
RecordSum(entries) ==
    IF entries = <<>> THEN 0
    ELSE entries[1].record_count + RecordSum(Tail(entries))

\* C27: when the free blocks suffice, the plan for a file of size > 0 bytes
\* has ceil(ceil(size / block_size) / blocks_per_entry) entries, every entry
\* but the last has record_count = blocks_per_entry * block_size /
\* sector_size, and the record counts add up to ceil(size / sector_size);
\* for size = 0 the plan is empty and write_file leaves the image as it was.
C27_RecordAccounting ==
    (/\ op.name = "write_file"
     /\ block_size % sector_size = 0
     /\ BlocksNeeded(op.data) <= FreeBlockCount(pre))
        => LET length == Len(op.data)
               per == ExtentBytes \div block_size
           IN /\ result # "Exception"
              /\ Len(planned) = Up(Up(length, block_size), per)
              /\ RecordSum(planned) = Up(length, sector_size)
              /\ \A i \in 1..(Len(planned) - 1) :
                    planned[i].record_count = ExtentBytes \div sector_size
              /\ length = 0 =>
                    /\ planned = <<>>
                    /\ slots = <<>>
                    /\ result = "ok"
                    /\ img = pre

C27_Witness ==
    /\ op.name = "write_file"
    /\ Len(op.data) = ExtentBytes + 1
    /\ Len(planned) = 2
    /\ planned[1].record_count = ExtentBytes \div sector_size
    /\ planned[2].record_count = 1

\* C28: the block of the (track, sector) that track_sector gives for a block
\* b >= 0 is b again and that sector lies in 0..sectors_per_track - 1; the
\* (track, sector) of the offset that track_sector_offset gives for a track
\* and a sector in 0..sectors_per_track - 1 is that track and sector again.
C28_Translations ==
    /\ op.name = "track_sector" =>
          /\ block(ret[1], ret[2]) = op.n
          /\ ret[2] \in 0..(disk.sectors_per_track - 1)
    /\ op.name = "track_sector_offset" =>
          offset_to_track_sector(ret) = <<op.n, op.sector>>

C28_Witness ==
    /\ op.name = "track_sector"
    /\ disk = GeomExample
    /\ op.n = 5
    /\ ret = <<3, 10>>

\* the highest pointer the width of the disk holds
PointerLimit == IF total_usable_blocks > 255 THEN 65535 ELSE 255

\* the pointer field as to_bytes writes it and the block numbers read back
\* from it in the width of the disk
PointersKept(e) ==
    LET field == IF use_16bit THEN encode16(e.block_allocation)
                 ELSE e.block_allocation
    IN /\ IsByteList(field)
       /\ Len(field) = (IF use_16bit THEN 2 ELSE 1) * Len(e.block_allocation)
       /\ (IF use_16bit THEN decode16(field) ELSE field) = e.block_allocation

\* C29: with 8-bit pointers every block number find_free_blocks returns is
\* <= 255, with 16-bit pointers and total_usable_blocks <= 65535 it is
\* <= 65535, and the pointer list of every planned entry is encoded without
\* an exception and reads back as the same block numbers.
C29_PointersFit ==
    /\ (op.name = "find_free_blocks" /\ result = "ok") =>
          \A i \in 1..Len(ret) : ret[i] \in 0..PointerLimit
    /\ op.name = "write_file" =>
          /\ \A i \in 1..Len(blocks) : blocks[i] \in 0..PointerLimit
          /\ \A k \in 1..Len(planned) :
                /\ \A i \in 1..Len(planned[k].block_allocation) :
                      planned[k].block_allocation[i] \in 0..PointerLimit
                /\ to_bytes_error(planned[k], use_16bit) = "ok"
                /\ PointersKept(planned[k])

C29_Witness ==
    /\ op.name = "write_file"
    /\ result = "ok"
    /\ total_usable_blocks = 255
    /\ \E k \in 1..Len(planned) :
          \E i \in 1..Len(planned[k].block_allocation) :
              planned[k].block_allocation[i] = 255

====
